---------------------------- MODULE Spec2Model ----------------------------
(***************************************************************************)
(* Model of the startup feature collector:                                 *)
(*   - FeatureCollector.collect (pipeline.py) gathering its sources,       *)
(*   - OpenDataSource.fetch (sources/open_data.py) running its six         *)
(*     sub-fetches under gather_with_concurrency (http.py), folding the    *)
(*     results with _deep_merge, resolving domain and name and enriching   *)
(*     the founders,                                                       *)
(*   - the two merge implementations as pure functions.                    *)
(*                                                                         *)
(* JSON values are tagged records, so that values of different Python      *)
(* types can be compared: None, str, number, bool, dict and list.  A dict  *)
(* is a function from its keys (strings) to values; dict equality in       *)
(* Python ignores insertion order, as function equality does.              *)
(* Fractions are kept as scaled integers: ratios in hundredths,            *)
(* sentiment averages in thousandths; market sizes are in millions.        *)
(***************************************************************************)
EXTENDS Naturals, Integers, Sequences, FiniteSets, TLC

\* ------------------------------------------------------------------ values
Null == [t |-> "null"]

Str(s) == [t |-> "str", s |-> s]

Num(n) == [t |-> "num", n |-> n]

\* A number that is not integral: n + h/100 with n >= 0 and 0 < h < 100.
Frac(n, h) == [t |-> "frac", n |-> n, h |-> h]

Bool(b) == [t |-> "bool", b |-> b]

Map(f) == [t |-> "map", m |-> f]

List(q) == [t |-> "list", l |-> q]

\* What a gather slot or a variable holds before a value is stored in it.
NoResult == [t |-> "none"]

EmptyDict == [k \in {} |-> Null]

IsMap(v) == v.t = "map"

IsList(v) == v.t = "list"

\* Python truthiness of a value (`not x`, `x or y`, `if x`).
Truthy(v) ==
    CASE v.t = "null" -> FALSE
      [] v.t = "none" -> FALSE
      [] v.t = "str" -> v.s # ""
      [] v.t = "num" -> v.n # 0
      [] v.t = "frac" -> TRUE
      [] v.t = "bool" -> v.b
      [] v.t = "map" -> DOMAIN v.m # {}
      [] v.t = "list" -> v.l # <<>>

\* dict.get(key, default)
Get(d, key, default) == IF key \in DOMAIN d THEN d[key] ELSE default

\* x or y
Or(x, y) == IF Truthy(x) THEN x ELSE y

\* d[key] = value on a dict
Put(d, key, value) == [k \in DOMAIN d \cup {key} |-> IF k = key THEN value ELSE d[k]]

\* ------------------------------------------------------------------ merges
\* A merge that is dict.update: an incoming value replaces the existing one
\* whole, with no recursion, no concatenation and no test for None.
DeepMergeOverwrite(base, update) ==
    [key \in DOMAIN base \cup DOMAIN update |->
        IF key \in DOMAIN update THEN update[key] ELSE base[key]]

\* OpenDataSource._deep_merge: the accumulator after merging `update` into it.

RECURSIVE DeepMerge(_, _)
DeepMerge(base, update) ==
    [key \in DOMAIN base \cup DOMAIN update |->
        IF key \notin DOMAIN update THEN base[key]
        ELSE IF key \notin DOMAIN base THEN update[key]
        ELSE IF IsMap(base[key]) /\ IsMap(update[key])
            THEN Map(DeepMerge(base[key].m, update[key].m))
        ELSE IF IsList(base[key]) /\ IsList(update[key])
            THEN List(base[key].l \o update[key].l)
        ELSE IF update[key] # Null THEN update[key]
        ELSE base[key]]

\* A fold in which the accumulator is merged last, onto the results.
RECURSIVE FoldSeedLast(_, _)
FoldSeedLast(acc, results) ==
    IF results = <<>> THEN acc
    ELSE DeepMerge(Head(results), FoldSeedLast(acc, Tail(results)))

\* for result in results: payload = self._deep_merge(payload, result)
RECURSIVE FoldDeepMerge(_, _)
FoldDeepMerge(acc, results) ==
    IF results = <<>> THEN acc
    ELSE FoldDeepMerge(DeepMerge(acc, Head(results)), Tail(results))

\* The keys of a dict as a list ([*d]).  Insertion order is not tracked: the
\* order is exact for a dict of at most one key and a fixed one otherwise.
RECURSIVE KeyList(_)
KeyList(S) ==
    IF S = {} THEN <<>>
    ELSE LET k == CHOOSE x \in S : TRUE IN <<Str(k)>> \o KeyList(S \ {k})

\* [*x] for a value x: its elements, or "TypeError" when x is not iterable.
\* The strings that meet a list in the model have one character.
Unpack(x) ==
    CASE x.t = "list" -> [err |-> FALSE, l |-> x.l]
      [] x.t = "map" -> [err |-> FALSE, l |-> KeyList(DOMAIN x.m)]
      [] x.t = "str" -> [err |-> FALSE, l |-> IF x.s = "" THEN <<>> ELSE <<x>>]
      [] OTHER -> [err |-> TRUE, l |-> <<>>]

\* One iteration of the inner loop of FeatureCollector._merge_payloads, for a
\* key already in `merged`: the new merged[key], or err when Python raises.
MergeValue(existing, value) ==
    IF IsMap(value)
    THEN IF IsMap(existing)
         THEN [err |-> FALSE, v |-> Map(value.m @@ existing.m)]
         ELSE [err |-> TRUE, v |-> Null]
    ELSE IF IsList(value)
    THEN [err |-> Unpack(existing).err, v |-> List(Unpack(existing).l \o value.l)]
    ELSE [err |-> FALSE, v |-> value]

\* The body of the outer loop of _merge_payloads for one payload.
MergeOne(merged, payload) ==
    LET both == DOMAIN merged \cap DOMAIN payload
    IN  [err |-> \E key \in both : MergeValue(merged[key], payload[key]).err,
         v |-> [key \in DOMAIN merged \cup DOMAIN payload |->
                  IF key \notin DOMAIN payload THEN merged[key]
                  ELSE IF key \notin DOMAIN merged THEN payload[key]
                  ELSE MergeValue(merged[key], payload[key]).v]]

\* FeatureCollector._merge_payloads: [err |-> a TypeError was raised,
\* v |-> the merged payload].
RECURSIVE MergeFrom(_, _)
MergeFrom(merged, payloads) ==
    IF payloads = <<>> THEN [err |-> FALSE, v |-> merged]
    ELSE LET step == MergeOne(merged, Head(payloads))
         IN  IF step.err THEN [err |-> TRUE, v |-> EmptyDict]
             ELSE MergeFrom(step.v, Tail(payloads))

MergePayloads(payloads) == MergeFrom(EmptyDict, payloads)


\* ------------------------------------------------------------------ bounds
\* Largest max_concurrency the configurations of the model use.
MaxLimit == 2

\* Longest sequence of payloads the pure merge specification folds.
MaxPayloads == 2

\* ------------------------------------------------------- program constants
\* self.sources in declaration order: the OpenDataSource and a second
\* DataSource.
Sources == <<"open_data", "other">>

\* The six sub-fetches of OpenDataSource.fetch, in declaration order.
NTasks == 6

Tasks == 1..NTasks

SerpTask == 1

JobsTask == 2

NewsTask == 3

CrunchbaseTask == 4

ProductHuntTask == 5

OpenCorporatesTask == 6

\* APIKeys fields read by OpenDataSource.__init__ (opencorporates_token is
\* optional for its call and never gates it).
AllKeys == {"serpapi_key", "newsapi_key", "crunchbase_key", "producthunt_token",
            "proxycurl_key"}

KeyConfigs == {{}, AllKeys}

\* ------------------------------------------------------------------ inputs
Names == {Null, Str("Acme")}

Domains == {Null, Str("q.com")}

ProfilePaths == {Null, Str("missing.json"), Str("seed.json")}

Queries == [name : Names, domain : Domains, profile_path : ProfilePaths]

\* A file system on which every path exists.
PathExistsAlways(path) == TRUE

\* Path.exists() on the model's file system.
PathExists(path) == path = Str("seed.json")

SeedFounder ==
    Map([name |-> Str("Sam"), education_level |-> Str("Masters"),
         school_tier |-> Str("Tier-2"), title |-> Str("CEO")])

\* json.load of seed.json
SeedPayload ==
    [profile |-> Map([name |-> Str("SeedCo"), domain |-> Str("seed.com"),
                      timing |-> Str("JustRight")]),
     sentiment |-> Map([overall |-> Str("Positive"), average |-> Num(400)]),
     founders |-> List(<<SeedFounder>>)]

\* What a network call of the client can do: raise (an error or a timeout),
\* return a JSON mapping, or return a body that is not a mapping
\* (_sync_request returns the raw text when it is not JSON; the cache returns
\* whatever JSON value it holds).
CallOutcomes == {"raise", "ok", "malformed"}

\* ------------------------------------------------------------ sub-fetches
\* OpenDataSource._extract_domain on the URLs of the model's responses.
ExtractDomain(url) ==
    CASE url = Str("https://kg.com/about") -> Str("kg.com")
      [] url = Str("acme.io") -> Str("acme.io")
      [] OTHER -> url

\* The mapping SerpAPI answers with in the model.
SerpData ==
    [knowledge_graph |-> Map([title |-> Str("Acme"),
                              website |-> Str("https://kg.com/about"),
                              headquarters_location |-> Str("Oakland")]),
     organic_results |-> List(<<Map([snippet |-> Str("Acme builds things"),
                                     link |-> Str("acme.io")])>>)]

\* Lines 139-166 of _serp_company_overview on a mapping `data` with the fields
\* of SerpData (founding_date and categories absent).
SerpProfile(name, domain, data) ==
    LET knowledge == Get(data, "knowledge_graph", Map(EmptyDict))
        p0 == [name |-> name]
        p1 == IF Truthy(knowledge)
              THEN Put(p0, "description",
                       Or(Get(knowledge.m, "description", Null),
                          Get(knowledge.m, "title", Null)))
              ELSE p0
        p2 == IF Truthy(knowledge) /\ Truthy(Get(knowledge.m, "website", Null))
              THEN Put(p1, "domain", ExtractDomain(knowledge.m["website"]))
              ELSE p1
        hq == IF Truthy(knowledge)
                 /\ Truthy(Get(knowledge.m, "headquarters_location", Null))
              THEN Put(p2, "headquarters", knowledge.m["headquarters_location"])
              ELSE p2
        organic == Get(data, "organic_results", List(<<>>))
        top == IF Truthy(organic) THEN organic.l[1].m ELSE EmptyDict
        p3 == IF Truthy(organic) /\ Truthy(Get(top, "snippet", Null))
                 /\ "description" \notin DOMAIN hq
              THEN Put(hq, "description", top["snippet"])
              ELSE hq
        p4 == IF Truthy(organic) /\ Truthy(Get(top, "link", Null))
                 /\ "domain" \notin DOMAIN p3
              THEN Put(p3, "domain", ExtractDomain(top["link"]))
              ELSE p3
        p5 == IF Truthy(domain) /\ "domain" \notin DOMAIN p4
              THEN Put(p4, "domain", domain)
              ELSE p4
    IN  [profile |-> Map(p5)]

\* _serp_company_overview without a name or without a key (lines 118-124).
SerpEarly(name, domain) ==
    LET p0 == IF Truthy(name) THEN [name |-> name] ELSE EmptyDict
        p1 == IF Truthy(domain) THEN Put(p0, "domain", domain) ELSE p0
    IN  IF p1 # EmptyDict THEN [profile |-> Map(p1)] ELSE EmptyDict

\* _serp_job_postings on the model's answer: two job hits, one of them senior.
JobsResult ==
    [hiring |-> Map([job_postings |-> Num(120),
                     net_new_roles_last_quarter |-> Num(6),
                     senior_ratio |-> Num(50)])]

\* The placeholder _news_sentiment returns without a key or after an error.
NewsPlaceholder ==
    [sentiment |-> Map([overall |-> Str("Unknown"), average |-> Num(0),
                        article_count |-> Num(0)])]

\* _news_sentiment on the model's answer: two scored articles.
NewsResult ==
    [sentiment |-> Map([overall |-> Str("Neutral"), average |-> Num(100),
                        article_count |-> Num(2),
                        sources |-> List(<<Str("https://news.example/1")>>)])]

\* _market_size_estimate, in millions of USD
MarketSizeEstimate(categories) ==
    IF ~Truthy(categories) THEN Null ELSE Num(10000)

\* _market_cagr, in hundredths
MarketCagr(categories) ==
    IF ~Truthy(categories) THEN Num(12) ELSE Num(15)

\* _map_crunchbase_founder on the founder item of the model's answer.
CrunchbaseFounder ==
    Map([name |-> Str("Ben"), title |-> Str("CTO"), linkedin_url |-> Null,
         education_level |-> Str("Unknown"), school_tier |-> Str("Unknown"),
         leadership_experience |-> Bool(TRUE),
         top_company_experience |-> Bool(FALSE),
         previous_exits |-> Num(0), role_alignment |-> Num(0)])

\* The properties of the entity Crunchbase answers with in the model: no
\* description and no categories.
CrunchbaseProps ==
    [name |-> Str("Acme Inc"), website_url |-> Str("acme.io"),
     num_employees_enum |-> Str("c_00011_00050"),
     last_funding_type |-> Str("series_a"), num_funding_rounds |-> Num(2)]

\* _crunchbase_profile on that entity (lines 288-344).
CrunchbaseResult(name) ==
    LET props == CrunchbaseProps
        p0 == [name |-> Get(props, "name", name),
               description |-> Or(Get(props, "short_description", Null),
                                  Get(props, "description", Null))]
        p1 == IF Truthy(Get(props, "website_url", Null))
              THEN Put(p0, "domain", ExtractDomain(props["website_url"]))
              ELSE p0
        p2 == IF Truthy(Get(props, "num_employees_enum", Null))
              THEN Put(p1, "team_size", props["num_employees_enum"])
              ELSE p1
    IN  [profile |-> Map(p2),
         funding |-> Map([stage |-> Str("Series A"),
                          valuation_trend |-> Str("Unknown"),
                          investor_quality |-> Str("Unknown"),
                          round_count |-> Get(props, "num_funding_rounds", Null),
                          last_funding_on |-> Get(props, "last_funding_on", Null)]),
         founders |-> List(<<CrunchbaseFounder>>),
         market |-> Map([size_usd |-> MarketSizeEstimate(Get(props, "categories", Null)),
                         cagr |-> MarketCagr(Get(props, "categories", Null))]),
         competition |-> Map([competitor_count |-> Num(0),
                              investor_diversity |-> Num(0)])]

\* _producthunt_signals on the model's answer: 300 votes, rating 4.
ProductHuntResult ==
    [product |-> Map([tagline |-> Str("Build faster"), pmf |-> Str("Moderate"),
                      innovation_mentions |-> Str("Often"),
                      frontier_tech_usage |-> Str("Emphasized"),
                      reviews |-> Str("Positive"),
                      pivot_history |-> Str("Rarely"),
                      release_frequency_per_quarter |-> Num(6)])]

\* _opencorporates_filings on the model's answer.
OpenCorporatesResult ==
    [compliance |-> Map([jurisdiction |-> Str("us_ca"),
                         incorporation_date |-> Null,
                         company_number |-> Str("C123")]),
     profile |-> Map([legal_name |-> Str("Acme Incorporated")])]

\* Whether sub-fetch i gets past its first guard and calls the network.
CallsNetwork(i, query, keys) ==
    CASE i = SerpTask -> Truthy(query.name) /\ "serpapi_key" \in keys
      [] i = JobsTask -> Truthy(query.name) /\ "serpapi_key" \in keys
      [] i = NewsTask -> Truthy(Or(query.name, query.domain)) /\ "newsapi_key" \in keys
      [] i = CrunchbaseTask -> Truthy(query.name) /\ "crunchbase_key" \in keys
      [] i = ProductHuntTask -> Truthy(query.name) /\ "producthunt_token" \in keys
      [] i = OpenCorporatesTask -> Truthy(query.name)

\* What sub-fetch i returns without calling the network.
EarlyResult(i, query) ==
    CASE i = SerpTask -> SerpEarly(query.name, query.domain)
      [] i = NewsTask -> NewsPlaceholder
      [] OTHER -> EmptyDict

\* What sub-fetch i returns when its network call raised: the except branch.
CaughtResult(i, query) ==
    CASE i = SerpTask -> [profile |-> Map([name |-> query.name, domain |-> query.domain])]
      [] i = NewsTask -> NewsPlaceholder
      [] OTHER -> EmptyDict

\* What sub-fetch i returns when its network call answered with a mapping.
OkResult(i, query) ==
    CASE i = SerpTask -> SerpProfile(query.name, query.domain, SerpData)
      [] i = JobsTask -> JobsResult
      [] i = NewsTask -> NewsResult
      [] i = CrunchbaseTask -> CrunchbaseResult(query.name)
      [] i = ProductHuntTask -> ProductHuntResult
      [] i = OpenCorporatesTask -> OpenCorporatesResult

\* Whether a sub-fetch whose call ended with `outcome` raises: data.get(...)
\* on the answer lies outside the try block, so a body that is not a mapping
\* raises AttributeError out of the sub-fetch.
SubFetchRaises(outcome) == outcome = "malformed"

\* The payload sub-fetch i returns after a call that ended with `outcome`.
SubFetchResult(i, query, outcome) ==
    IF outcome = "ok" THEN OkResult(i, query) ELSE CaughtResult(i, query)


\* ------------------------------------------------------- founder enrichment
\* OpenDataSource._default_founder_profile
DefaultFounderProfile(founder) ==
    Map([name |-> Get(founder.m, "name", Str("Unknown")),
         education_level |-> Get(founder.m, "education_level", Str("Unknown")),
         school_tier |-> Get(founder.m, "school_tier", Str("Unknown")),
         leadership_experience |-> Get(founder.m, "leadership_experience", Bool(FALSE)),
         top_company_experience |-> Get(founder.m, "top_company_experience", Bool(FALSE)),
         previous_exits |-> Get(founder.m, "previous_exits", Num(0)),
         role_alignment |-> Get(founder.m, "role_alignment", Num(0))])

\* OpenDataSource._map_proxycurl_profile on the LinkedIn profile Proxycurl
\* answers with in the model: no full_name, a PhD from MIT, a founder role at
\* Google in a current engineering position, one acquired company.
\* role_alignment is in hundredths.
MapProxycurlProfile(fallback_name) ==
    Map([name |-> Or(Or(Null, fallback_name), Str("Unknown")),
         education_level |-> Str("PhD"),
         school_tier |-> Str("Tier-1"),
         leadership_experience |-> Bool(TRUE),
         top_company_experience |-> Bool(TRUE),
         previous_exits |-> Num(1),
         role_alignment |-> Num(100)])

\* What one iteration of the loop of _proxycurl_enrich_founders can append
\* for `founder`: the mapped profile needs a LinkedIn URL (the founder's own,
\* or one found by the employee search, which needs a name and a domain) and
\* a profile call that answers; every failure appends the default profile.
EnrichOutcomes(founder, domain) ==
    IF Truthy(Get(founder.m, "linkedin_url", Null))
       \/ (Truthy(Get(founder.m, "name", Null)) /\ Truthy(domain))
    THEN {"default", "mapped"}
    ELSE {"default"}

EnrichOne(founder, outcome) ==
    IF outcome = "mapped"
    THEN MapProxycurlProfile(Get(founder.m, "name", Null))
    ELSE DefaultFounderProfile(founder)

\* ----------------------------------------------------- the tail of fetch
\* payload.get("profile", {})
ProfileOf(payload) == Get(payload, "profile", Map(EmptyDict)).m

\* resolved_domain = payload.get("profile", {}).get("domain") or domain
ResolvedDomain(payload, domain) == Or(Get(ProfileOf(payload), "domain", Null), domain)

\* A resolution pass that prefers the query's domain to the merged one.
ResolveDomainQueryWins(payload, domain) ==
    IF Truthy(domain)
    THEN Put(payload, "profile", Map(Put(ProfileOf(payload), "domain", domain)))
    ELSE payload

\* Lines 78-80: the domain resolution pass.
ResolveDomain(payload, domain) ==
    IF Truthy(ResolvedDomain(payload, domain))
    THEN Put(payload, "profile",
             Map(Put(ProfileOf(payload), "domain", ResolvedDomain(payload, domain))))
    ELSE payload

\* Lines 88-90: the name resolution pass.
ResolveName(payload, name) ==
    Put(payload, "profile",
        Map(Put(ProfileOf(payload), "name",
                Or(Get(ProfileOf(payload), "name", Null), name))))

\* An enrichment that hands the records back last first.
SetFoundersReversed(payload, enrichedList) ==
    IF enrichedList # <<>>
    THEN Put(payload, "founders",
             List([k \in 1..Len(enrichedList) |->
                     enrichedList[Len(enrichedList) + 1 - k]]))
    ELSE payload

\* Lines 85-86: if enriched: payload["founders"] = enriched
SetFounders(payload, enrichedList) ==
    IF enrichedList # <<>> THEN Put(payload, "founders", List(enrichedList)) ELSE payload

\* payload.get("founders", [])
FoundersOf(payload) == Get(payload, "founders", List(<<>>))

\* ------------------------------------------------------------ gather
\* A gather that appends each result as it arrives, as asyncio.as_completed
\* would.
StoreInCompletionOrder(slots, i, value) ==
    LET free == {j \in DOMAIN slots : slots[j] = NoResult}
        first == CHOOSE j \in free : \A k \in free : j <= k
    IN  [slots EXCEPT ![first] = value]

\* A gather whose awaitables all write one shared result: every slot shows
\* the value written last.
StoreInSharedSlot(slots, i, value) == [j \in DOMAIN slots |-> value]

\* asyncio.gather keeps the result of the i-th awaitable in the i-th slot of
\* the list it returns, whenever that awaitable completes.
StoreResult(slots, i, value) == [slots EXCEPT ![i] = value]

\* The payloads of a full list of gather slots.
Payloads(slots) == [i \in DOMAIN slots |-> slots[i].m]

\* An entry that takes no permit.
AcquireFree(sem) == sem

\* asyncio.Semaphore: `async with semaphore` takes a permit on entry and
\* gives it back on exit, whether the body returned or raised.
Acquire(sem) == sem - 1

Release(sem) == sem + 1

\* ------------------------------------------------------- feature building
\* float(x) / int(x) raise on None, on a mapping, on a list and on a string
\* that is not a number (no string of the model is one).
CoercionRaises(v) == v.t \in {"null", "map", "list", "str"}

\* Whether FounderFeatureBlock._parse_founder or _education_score raises on a
\* founder record.
FounderRaises(founder) ==
    \/ ~IsMap(founder)
    \/ /\ IsMap(founder)
       /\ \/ CoercionRaises(Get(founder.m, "previous_exits", Num(0)))
          \/ CoercionRaises(Get(founder.m, "role_alignment", Num(0)))
          \/ Get(founder.m, "education_level", Str("Unknown")).t # "str"
          \/ Get(founder.m, "school_tier", Str("Unknown")).t # "str"

\* Whether FeatureCollector._build_features raises on `payload`: a section
\* read with .get that is not a mapping, or a numeric field that float()/int()
\* rejects.
BuildRaises(payload) ==
    \/ \E sec \in {"profile", "funding", "sentiment", "product", "hiring",
                   "market", "competition", "compliance", "knowledge"} :
          sec \in DOMAIN payload /\ ~IsMap(payload[sec])
    \/ ~IsList(FoundersOf(payload))
    \/ /\ IsList(FoundersOf(payload))
       /\ \E n \in DOMAIN FoundersOf(payload).l : FounderRaises(FoundersOf(payload).l[n])
    \/ \E f \in {<<"market", "size_usd">>, <<"market", "cagr">>,
                 <<"competition", "competitor_count">>,
                 <<"competition", "investor_diversity">>,
                 <<"sentiment", "average">>,
                 <<"compliance", "patent_count">>,
                 <<"compliance", "regulation_mentions">>} :
          /\ f[1] \in DOMAIN payload
          /\ IsMap(payload[f[1]])
          /\ f[2] \in DOMAIN payload[f[1]].m
          /\ CoercionRaises(payload[f[1]].m[f[2]])


\* ------------------------------------------------------- prediction block
\* What a block call leaves when it raised.
Raised == [t |-> "raised"]

\* CATEGORICAL_DEFAULT
Unknown == Str("Unknown")

IsNumber(v) == v.t \in {"num", "frac", "bool"}

\* A number in hundredths of its unit.
Hundredths(v) ==
    CASE v.t = "num" -> 100 * v.n
      [] v.t = "frac" -> 100 * v.n + v.h
      [] v.t = "bool" -> IF v.b THEN 100 ELSE 0

\* PredictionFeatureBlock._to_number, in hundredths: float(value), and 0.0
\* when float raises TypeError or ValueError (None, a mapping, a sequence, a
\* string that is no number: no string of the model is one).
ToNumber(value) == IF IsNumber(value) THEN Hundredths(value) ELSE 0

\* The value of a field the model keeps in hundredths (a rate, a ratio): 0.15
\* is Num(15), and True is 1.
Ratio(v) == IF v.t = "bool" THEN (IF v.b THEN 100 ELSE 0) ELSE v.n

\* payload.get(section, {}) on a payload
Section(payload, name) == Get(payload, name, Map(EmptyDict))

\* The buckets with 0.15 itself left out of "Yes".
InferIndustryGrowthStrict(profile) ==
    LET trend == Get(profile, "industry_growth", Null)
        market_growth == Get(profile, "market_growth_rate", Null)
    IN  IF Truthy(trend) THEN trend
        ELSE IF market_growth = Null THEN Unknown
        ELSE IF Ratio(market_growth) > 15 THEN Str("Yes")
        ELSE IF Ratio(market_growth) <= 0 THEN Str("No")
        ELSE Str("N/A")

\* PredictionFeatureBlock._infer_industry_growth; market_growth_rate is kept
\* in hundredths.
InferIndustryGrowth(profile) ==
    LET trend == Get(profile, "industry_growth", Null)
        market_growth == Get(profile, "market_growth_rate", Null)
    IN  IF Truthy(trend) THEN trend
        ELSE IF market_growth = Null THEN Unknown
        ELSE IF Ratio(market_growth) >= 15 THEN Str("Yes")
        ELSE IF Ratio(market_growth) <= 0 THEN Str("No")
        ELSE Str("N/A")

\* The thresholds with the boundaries 8 and 3 taken in.
GrowthSpeedInclusive(profile, hiring) ==
    LET updates == Get(profile, "update_frequency_per_month", Null)
        hires == Get(hiring, "net_new_roles_last_quarter", Null)
        score == 6 * ToNumber(updates) + 4 * ToNumber(hires)
    IN  IF updates = Null /\ hires = Null THEN Unknown
        ELSE IF score >= 8000 THEN Str("Faster")
        ELSE IF score <= 3000 THEN Str("Slower")
        ELSE Str("Same")

\* PredictionFeatureBlock._growth_speed: score = updates * 0.6 + hires * 0.4,
\* compared in thousandths.
GrowthSpeed(profile, hiring) ==
    LET updates == Get(profile, "update_frequency_per_month", Null)
        hires == Get(hiring, "net_new_roles_last_quarter", Null)
        score == 6 * ToNumber(updates) + 4 * ToNumber(hires)
    IN  IF updates = Null /\ hires = Null THEN Unknown
        ELSE IF score > 8000 THEN Str("Faster")
        ELSE IF score < 3000 THEN Str("Slower")
        ELSE Str("Same")

\* A score to which an absent senior ratio adds 1.
ExecutionAbsentCounts(product, hiring) ==
    LET release_freq == Get(product, "release_frequency_per_quarter", Null)
        senior_hires == Get(hiring, "senior_ratio", Null)
        score == (IF release_freq # Null THEN Hundredths(release_freq) ELSE 0)
                 + (IF senior_hires # Null THEN 8 * Ratio(senior_hires) ELSE 400)
    IN  IF release_freq = Null /\ senior_hires = Null THEN Unknown
        ELSE IF score > 640 THEN Str("Excellent")
        ELSE IF score < 320 THEN Str("Poor")
        ELSE Str("Average")

\* PredictionFeatureBlock._execution: score = release_freq / 4 +
\* senior_hires * 2, compared in four-hundredths; senior_ratio is kept in
\* hundredths.
Execution(product, hiring) ==
    LET release_freq == Get(product, "release_frequency_per_quarter", Null)
        senior_hires == Get(hiring, "senior_ratio", Null)
        score == (IF release_freq # Null THEN Hundredths(release_freq) ELSE 0)
                 + (IF senior_hires # Null THEN 8 * Ratio(senior_hires) ELSE 0)
    IN  IF release_freq = Null /\ senior_hires = Null THEN Unknown
        ELSE IF score > 640 THEN Str("Excellent")
        ELSE IF score < 320 THEN Str("Poor")
        ELSE Str("Average")

\* Whether PredictionFeatureBlock.build raises: a section that is no mapping
\* has no .get, a market growth rate that is no number cannot be compared,
\* and float() rejects a release frequency or senior ratio that is no number.
PredictionRaises(payload) ==
    \/ \E sec \in {"profile", "funding", "sentiment", "product", "hiring"} :
          ~IsMap(Section(payload, sec))
    \/ LET profile == Section(payload, "profile").m
       IN  /\ ~Truthy(Get(profile, "industry_growth", Null))
           /\ Get(profile, "market_growth_rate", Null).t \notin {"null", "num", "bool"}
    \/ \E f \in {<<"product", "release_frequency_per_quarter">>,
                 <<"hiring", "senior_ratio">>} :
          LET v == Get(Section(payload, f[1]).m, f[2], Null)
          IN  v # Null /\ ~IsNumber(v)

\* PredictionFeatureBlock.build
PredictionBuild(payload) ==
    LET profile == Section(payload, "profile").m
        funding == Section(payload, "funding").m
        sentiment == Section(payload, "sentiment").m
        product == Section(payload, "product").m
        hiring == Section(payload, "hiring").m
    IN  IF PredictionRaises(payload) THEN Raised
        ELSE Map([industry_growth |-> InferIndustryGrowth(profile),
                  market_size |-> Get(profile, "market_size", Unknown),
                  growth_speed |-> GrowthSpeed(profile, hiring),
                  market_adaptability |-> Get(product, "pivot_history", Unknown),
                  execution_capability |-> Execution(product, hiring),
                  funding_amount |-> Get(funding, "stage", Unknown),
                  valuation_trend |-> Get(funding, "valuation_trend", Unknown),
                  investor_quality |-> Get(funding, "investor_quality", Unknown),
                  pmf_strength |-> Get(product, "pmf", Unknown),
                  innovation_mentions |-> Get(product, "innovation_mentions", Unknown),
                  frontier_tech_usage |-> Get(product, "frontier_tech_usage", Unknown),
                  timing |-> Get(profile, "timing", Unknown),
                  sentiment |-> Get(sentiment, "overall", Unknown),
                  reviews |-> Get(product, "reviews", Unknown)])

\* ---------------------------------------------------------- founder block
Min(a, b) == IF a <= b THEN a ELSE b

Max(a, b) == IF a >= b THEN a ELSE b

\* int(x) on a number: truncation.
IntOf(v) ==
    CASE v.t = "num" -> v
      [] v.t = "frac" -> Num(v.n)
      [] v.t = "bool" -> Num(IF v.b THEN 1 ELSE 0)

\* float(x) on a number: the same number.
FloatOf(v) ==
    CASE v.t = "num" -> v
      [] v.t = "frac" -> v
      [] v.t = "bool" -> Num(IF v.b THEN 1 ELSE 0)

\* str.lower() on the education levels and school tiers of the model.
Lower(s) ==
    CASE s = "PhD" -> "phd"
      [] s = "PHD" -> "phd"
      [] s = "Masters" -> "masters"
      [] s = "Bachelors" -> "bachelors"
      [] s = "Associate" -> "associate"
      [] s = "Tier-1" -> "tier-1"
      [] s = "Tier-2" -> "tier-2"
      [] s = "Tier-3" -> "tier-3"
      [] s = "Unknown" -> "unknown"
      [] OTHER -> s

\* FounderFeatureBlock._education_score, in tenths.
EducationScore(level, tier) ==
    LET base == CASE Lower(level) = "phd" -> 25
                  [] Lower(level) = "masters" -> 20
                  [] Lower(level) = "bachelors" -> 15
                  [] Lower(level) = "associate" -> 10
                  [] OTHER -> 5
        tier_bonus == CASE Lower(tier) = "tier-1" -> 15
                        [] Lower(tier) = "tier-2" -> 10
                        [] Lower(tier) = "tier-3" -> 5
                        [] OTHER -> 0
    IN  base + tier_bonus

\* FounderFeatureBlock._parse_founder; role_alignment is kept in hundredths.
ParseFounder(founder) ==
    [name |-> Get(founder.m, "name", Unknown),
     education_level |-> Get(founder.m, "education_level", Unknown).s,
     school_tier |-> Get(founder.m, "school_tier", Unknown).s,
     leadership_experience |-> Truthy(Get(founder.m, "leadership_experience", Bool(FALSE))),
     top_company_experience |-> Truthy(Get(founder.m, "top_company_experience", Bool(FALSE))),
     previous_exits |-> IntOf(Get(founder.m, "previous_exits", Num(0))).n,
     role_alignment |-> Ratio(Get(founder.m, "role_alignment", Num(0)))]

\* A score that falls with every exit.
ExitScoreInverted(previous_exits) == 15 * (2 - previous_exits)

\* min(founder.previous_exits, 2) * 1.5, in tenths.
ExitScore(previous_exits) == 15 * Min(previous_exits, 2)

\* What one pass of the loop of _aggregate_level adds to score, in tenths.
FounderScore(founder) ==
    EducationScore(founder.education_level, founder.school_tier)
    + (IF founder.leadership_experience THEN 10 ELSE 0)
    + (IF founder.top_company_experience THEN 15 ELSE 0)
    + ExitScore(founder.previous_exits)

RECURSIVE SumScores(_)
SumScores(founders) ==
    IF founders = <<>> THEN 0
    ELSE FounderScore(Head(founders)) + SumScores(Tail(founders))

\* The thresholds of _aggregate_level moved down by one level.
LevelOfShifted(score, count) ==
    IF score >= 40 * count THEN "L5"
    ELSE IF score >= 30 * count THEN "L4"
    ELSE IF score >= 15 * count THEN "L3"
    ELSE "L2"

\* The thresholds of _aggregate_level on avg_score = score / count, score in
\* tenths.
LevelOf(score, count) ==
    IF score >= 50 * count THEN "L5"
    ELSE IF score >= 40 * count THEN "L4"
    ELSE IF score >= 30 * count THEN "L3"
    ELSE IF score >= 15 * count THEN "L2"
    ELSE "L1"

\* FounderFeatureBlock._aggregate_level
AggregateLevel(founders) == LevelOf(SumScores(founders), Max(Len(founders), 1))

RECURSIVE SumAlignments(_)
SumAlignments(founders) ==
    IF founders = <<>> THEN 0
    ELSE Head(founders).role_alignment + SumAlignments(Tail(founders))

\* A quotient of two integers, den > 0.
Quotient(num, den) == [t |-> "quot", num |-> num, den |-> den]

\* No clamp at all.
ClampNone(x, lo, hi) == x

\* max(min(x, hi), lo)
Clamp(x, lo, hi) == Max(Min(x, hi), lo)

\* FounderFeatureBlock.build; a founders value that is no sequence, or a
\* record _parse_founder or _education_score rejects, raises.  fifs_score is
\* the clamped mean of the alignments, sum / (100 * count).
FounderBuild(payload) ==
    LET founders == Get(payload, "founders", List(<<>>))
        founder_profiles == [i \in DOMAIN founders.l |-> ParseFounder(founders.l[i])]
        count == Len(founder_profiles)
    IN  IF ~IsList(founders) \/ \E i \in DOMAIN founders.l : FounderRaises(founders.l[i])
        THEN Raised
        ELSE IF founder_profiles = <<>>
        THEN Map([founder_level |-> Str("L1"),
                  fifs_score |-> Quotient(0, 1),
                  founder_count |-> Num(0)])
        ELSE Map([founder_level |-> Str(AggregateLevel(founder_profiles)),
                  fifs_score |-> Quotient(Clamp(SumAlignments(founder_profiles),
                                                -100 * count, 100 * count),
                                          100 * count),
                  founder_count |-> Num(count)])

\* --------------------------------------------------------- external block
\* ExternalKnowledgeBlock._safe_list
SafeList(value) ==
    IF IsList(value) THEN value
    ELSE IF value = Null THEN List(<<>>)
    ELSE List(<<value>>)

\* The quantitative fields of ExternalKnowledgeBlock.build: the name of the
\* feature, the section and field it is read from, and the coercion.
ExternalFields ==
    {<<"market_size_usd", "market", "size_usd", "float">>,
     <<"cagr", "market", "cagr", "float">>,
     <<"competitor_count", "competition", "competitor_count", "int">>,
     <<"average_sentiment", "sentiment", "average", "float">>,
     <<"patent_count", "compliance", "patent_count", "int">>,
     <<"regulation_mentions", "compliance", "regulation_mentions", "int">>,
     <<"investor_diversity", "competition", "investor_diversity", "float">>}

\* The fields of knowledge_summary read with knowledge.get, and those read
\* through _safe_list.
KnowledgeScalars ==
    {"company_name", "sector", "product_type", "founder_team_complementarity",
     "founder_idea_fit", "timestamp_utc"}

KnowledgeLists == {"prior_signals", "potential_risks", "public_sources", "data_gaps"}

\* Whether ExternalKnowledgeBlock.build raises: a section that is no mapping
\* has no .get, and float() / int() reject a field that is no number.
ExternalRaises(payload) ==
    \/ \E sec \in {"market", "competition", "sentiment", "compliance", "knowledge"} :
          ~IsMap(Section(payload, sec))
    \/ \E f \in ExternalFields :
          CoercionRaises(Get(Section(payload, f[2]).m, f[3], Num(0)))

\* No coercion: the value as it is.
CoerceNone(kind, v) == v

\* float(x) or int(x), as the field asks.
Coerce(kind, v) == IF kind = "int" THEN IntOf(v) ELSE FloatOf(v)

\* ExternalKnowledgeBlock.build
ExternalBuild(payload) ==
    LET knowledge == Section(payload, "knowledge").m
        founders_detail == Get(knowledge, "founders", Null)
        names == {f[1] : f \in ExternalFields} \cup KnowledgeScalars \cup KnowledgeLists
                 \cup (IF IsList(founders_detail) THEN {"founders"} ELSE {})
        field(name) == CHOOSE f \in ExternalFields : f[1] = name
    IN  IF ExternalRaises(payload) THEN Raised
        ELSE Map([name \in names |->
                    IF name \in KnowledgeScalars THEN Get(knowledge, name, Null)
                    ELSE IF name \in KnowledgeLists
                    THEN SafeList(Get(knowledge, name, Null))
                    ELSE IF name = "founders" THEN founders_detail
                    ELSE Coerce(field(name)[4],
                                Get(Section(payload, field(name)[2]).m,
                                    field(name)[3], Num(0)))])

\* FeatureCollector._build_features: the three blocks in turn.
BuildFeatures(payload) ==
    IF PredictionBuild(payload) = Raised \/ FounderBuild(payload) = Raised
       \/ ExternalBuild(payload) = Raised
    THEN Raised
    ELSE Map([features_ssff |-> PredictionBuild(payload),
              features_founder |-> FounderBuild(payload),
              features_external |-> ExternalBuild(payload)])

\* ------------------------------------------------- inputs of the blocks
MaxFounders == 2

MaxExits == 3

\* d with d[key] = value, or d itself when value is NoResult (key absent).
Opt(d, key, value) == IF value = NoResult THEN d ELSE Put(d, key, value)

\* A payload of the given sections, those that are NoResult left out.
Sections(secs) == [name \in {n \in DOMAIN secs : secs[n] # NoResult} |-> secs[name]]

\* Payloads for _growth_speed and _infer_industry_growth: the update
\* frequency and the hires absent, null, numbers on both sides of the
\* thresholds 3 and 8, and values that are no numbers; the growth label and
\* rate absent, null, and rates on both sides of 0 and 0.15.
PredictionPayloads ==
    {Sections([profile |-> Map(Opt(EmptyDict, "update_frequency_per_month", u)),
               hiring |-> IF h = NoResult THEN NoResult
                          ELSE Map([net_new_roles_last_quarter |-> h])]) :
        u \in {NoResult, Null, Num(0), Num(5), Num(8), Num(10), Num(12), Str("n/a")},
        h \in {NoResult, Null, Num(0), Num(2), Num(8), Map(EmptyDict)}}
    \cup
    {[profile |-> Map(Opt(Opt(EmptyDict, "industry_growth", g),
                          "market_growth_rate", r))] :
        g \in {NoResult, Null, Str("Booming")},
        r \in {NoResult, Null, Num(-5), Num(0), Num(7), Num(15), Num(30)}}

\* Payloads for _execution: the release frequency (a whole number of
\* releases) and the senior ratio (in hundredths) absent, null, and on both
\* sides of the thresholds 0.8 and 1.6, alone and together.
ExecutionPayloads ==
    {Sections([product |-> IF r = NoResult THEN NoResult
                           ELSE Map([release_frequency_per_quarter |-> r]),
               hiring |-> Map(Opt(EmptyDict, "senior_ratio", s))]) :
        r \in {NoResult, Null, Num(0), Num(2), Num(4), Num(8)},
        s \in {NoResult, Null, Num(0), Num(30), Num(40), Num(60), Num(90)}}

\* The fields PredictionFeatureBlock.build copies: the feature, and the
\* section and field it is read from.
PassThrough ==
    {<<"market_size", "profile", "market_size">>,
     <<"market_adaptability", "product", "pivot_history">>,
     <<"funding_amount", "funding", "stage">>,
     <<"valuation_trend", "funding", "valuation_trend">>,
     <<"investor_quality", "funding", "investor_quality">>,
     <<"pmf_strength", "product", "pmf">>,
     <<"innovation_mentions", "product", "innovation_mentions">>,
     <<"frontier_tech_usage", "product", "frontier_tech_usage">>,
     <<"timing", "profile", "timing">>,
     <<"sentiment", "sentiment", "overall">>,
     <<"reviews", "product", "reviews">>}

\* The payload in which the pass-through fields of `given` hold v and the
\* others are absent.
PassThroughPayload(given, v) ==
    [sec \in {f[2] : f \in given} |->
        Map([field \in {f[3] : f \in {g \in given : g[2] = sec}} |-> v])]

\* Payloads for the pass-through fields: all of them, or one alone, supplied
\* with a label or with null.
PassThroughPayloads ==
    {PassThroughPayload(given, v) :
        given \in {PassThrough} \cup {{f} : f \in PassThrough},
        v \in {Str("High"), Null}}

\* Knowledge sections: none, one of scalars, one with sequences and a
\* founders list.
KnowledgeSections ==
    {NoResult,
     Map([sector |-> Str("AI"), prior_signals |-> Str("press")]),
     Map([company_name |-> Str("Acme"),
          potential_risks |-> List(<<Str("churn")>>),
          founders |-> List(<<Map([name |-> Str("Sam")])>>)])}

\* Payloads for ExternalKnowledgeBlock.build: each quantitative section absent
\* or present, counts integral or not, market sizes in millions, rates in
\* hundredths, sentiment averages in thousandths.
ExternalPayloads ==
    {Sections([market |-> m, competition |-> c, sentiment |-> s,
               compliance |-> r, knowledge |-> k]) :
        m \in {NoResult, Map([size_usd |-> Num(1000), cagr |-> Num(20)]),
               Map([size_usd |-> Null, cagr |-> Num(12)])},
        c \in {NoResult,
               Map([competitor_count |-> Num(10), investor_diversity |-> Num(60)]),
               Map([competitor_count |-> Frac(2, 50)])},
        s \in {NoResult, Map([average |-> Num(300)])},
        r \in {NoResult,
               Map([patent_count |-> Num(4), regulation_mentions |-> Num(2)]),
               Map([patent_count |-> Frac(4, 90), regulation_mentions |-> Bool(TRUE)])},
        k \in KnowledgeSections}

\* Founder records: education and tier absent or given, no exit or two, an
\* alignment inside and on either side of [-1, 1].
FounderRecords ==
    {Map(Opt(Opt([previous_exits |-> x, role_alignment |-> a],
                 "education_level", e), "school_tier", t)) :
        e \in {NoResult, Str("PhD")},
        t \in {NoResult, Str("Tier-1")},
        x \in {Num(0), Num(2)},
        a \in {Num(-150), Num(80), Num(150)}}

\* Payloads for FounderFeatureBlock.build: no founders key, and every list of
\* up to MaxFounders records.
FounderPayloads ==
    {EmptyDict}
    \cup {[founders |-> List(l)] :
            l \in UNION {[1..n -> FounderRecords] : n \in 0..MaxFounders}}

\* Payloads OpenDataSource.fetch returns.
FetchedPayloads == {SeedPayload, CrunchbaseResult(Str("Acme")), NewsPlaceholder}

FeatureUniverse ==
    PredictionPayloads \cup ExecutionPayloads \cup PassThroughPayloads
    \cup ExternalPayloads \cup FounderPayloads \cup FetchedPayloads

\* ------------------------------------------------------------------ state
VARIABLES
    query,        \* the query passed to collect
    keys,         \* the API keys the configuration holds
    limit,        \* config.max_concurrency
    collectPc,    \* collect: "idle", "gathering", "returned", "raised"
    raw,          \* the slots of the gather of collect (raw_payloads)
    merged,       \* the payload collect hands to the feature blocks
    fetchPc,      \* fetch: "idle", "start", "gather", "enrich", "done", "raised"
    fetchErr,     \* the error fetch raised
    seedRead,     \* whether _load_local_profile was called
    payload,      \* the local `payload` of fetch
    folded,       \* `payload` right after the fold of the results (line 76)
    st,           \* per sub-fetch: "idle", "pending", "running", "done", "raised"
    returned,     \* per sub-fetch: the payload its coroutine returned
    results,      \* the slots of the gather of fetch (results)
    sem,          \* the value of the semaphore of gather_with_concurrency
    enriched,     \* the local `enriched` of _proxycurl_enrich_founders
    otherSt,      \* the second source's fetch: "idle", "running", "done", "raised"
    otherRet,     \* the payload the second source's fetch returned
    mergeIn,      \* pure merge specification: the payloads to merge
    deepOut,      \* pure merge specification: the fold with _deep_merge
    flatOut,      \* pure merge specification: the result of _merge_payloads
    overtaken,    \* history: the gathers ("fetch", "collect") in which an
                  \* awaitable completed before one declared earlier
    featIn,       \* feature specification: the payload given to the blocks
    ssffOut,      \* feature specification: PredictionFeatureBlock.build(featIn)
    founderOut,   \* feature specification: FounderFeatureBlock.build(featIn)
    externalOut,  \* feature specification: ExternalKnowledgeBlock.build(featIn)
    prevLevel,    \* history: founder_level before a founder was last improved
    leftOut,      \* grouping specification: (A merged with B) merged with C
    rightOut,     \* grouping specification: A merged with (B merged with C)
    deepIn,       \* the payloads of mergeIn as they are after the fold with _deep_merge
    flatIn        \* the payloads of mergeIn as they are after _merge_payloads

collectVars == <<collectPc, raw, merged>>

fetchVars == <<fetchPc, fetchErr, seedRead, payload, folded, enriched>>

taskVars == <<st, returned, results, sem>>

otherVars == <<otherSt, otherRet>>

inputVars == <<query, keys, limit>>

mergeVars == <<mergeIn, deepOut, flatOut>>

featVars == <<featIn, ssffOut, founderOut, externalOut, prevLevel>>

groupVars == <<leftOut, rightOut>>

frameVars == <<deepIn, flatIn>>

vars ==
    <<inputVars, collectVars, fetchVars, taskVars, otherVars, mergeVars, overtaken,
      featVars, groupVars, frameVars>>

\* The payloads the second source's fetch can return.
OtherPayloads ==
    {[profile |-> Map([name |-> Str("OtherCo"), description |-> Null]),
      knowledge |-> Map([sector |-> Str("AI")])]}

Idle ==
    /\ collectPc = "idle"
    /\ raw = [s \in DOMAIN Sources |-> NoResult]
    /\ merged = NoResult
    /\ fetchPc = "idle"
    /\ fetchErr = "none"
    /\ seedRead = FALSE
    /\ payload = EmptyDict
    /\ folded = NoResult
    /\ st = [i \in Tasks |-> "idle"]
    /\ returned = [i \in Tasks |-> NoResult]
    /\ results = [i \in Tasks |-> NoResult]
    /\ sem = 0
    /\ enriched = <<>>
    /\ otherSt = "idle"
    /\ otherRet = NoResult
    /\ overtaken = {}

\* No feature block has been applied.
FeaturesIdle ==
    /\ featIn = EmptyDict
    /\ ssffOut = NoResult
    /\ founderOut = NoResult
    /\ externalOut = NoResult
    /\ prevLevel = NoResult

FrameIdle ==
    /\ leftOut = NoResult
    /\ rightOut = NoResult
    /\ deepIn = NoResult
    /\ flatIn = NoResult

Init ==
    /\ query \in Queries
    /\ keys \in KeyConfigs
    /\ limit \in 1..MaxLimit
    /\ Idle
    /\ FeaturesIdle
    /\ FrameIdle
    /\ mergeIn = <<>>
    /\ deepOut = NoResult
    /\ flatOut = NoResult

\* ---------------------------------------------------------------- collect
\* collect, up to the await of asyncio.gather: one task per source.
Collect ==
    /\ collectPc = "idle"
    /\ collectPc' = "gathering"
    /\ fetchPc' = "start"
    /\ otherSt' = "running"
    /\ UNCHANGED <<inputVars, raw, merged, fetchErr, seedRead, payload, folded,
                   enriched, taskVars, otherRet, mergeVars, featVars, groupVars, frameVars, overtaken>>

\* The event loop runs the tasks only while collect has not finished
\* (run_from_config: loop.run_until_complete).
Running == collectPc = "gathering"

\* A fetch without the validation of its query.
InvalidQueryNever(q) == FALSE

\* if not startup_name and not query.get("domain")
InvalidQuery(q) == ~Truthy(q.name) /\ ~Truthy(q.domain)

\* fetch, lines 55-74, up to the await of gather_with_concurrency.
FetchBegin ==
    /\ Running
    /\ fetchPc = "start"
    /\ IF InvalidQuery(query)
       THEN /\ fetchPc' = "raised"
            /\ fetchErr' = "InvalidQuery"
            /\ UNCHANGED <<seedRead, payload, taskVars>>
       ELSE IF Truthy(query.profile_path) /\ ~PathExists(query.profile_path)
       THEN /\ fetchPc' = "raised"
            /\ fetchErr' = "SeedNotFound"
            /\ seedRead' = TRUE
            /\ UNCHANGED <<payload, taskVars>>
       ELSE /\ fetchPc' = "gather"
            /\ seedRead' = Truthy(query.profile_path)
            /\ payload' = IF Truthy(query.profile_path) THEN SeedPayload ELSE EmptyDict
            /\ st' = [i \in Tasks |-> "pending"]
            /\ sem' = limit
            /\ UNCHANGED <<fetchErr, returned, results>>
    /\ UNCHANGED <<inputVars, collectVars, folded, enriched, otherVars, mergeVars, featVars, groupVars, frameVars, overtaken>>

\* sem_task(i) takes a permit and starts sub-fetch i.  The event loop runs
\* new tasks and wakes semaphore waiters first-in first-out, so the
\* sub-fetches start in declaration order.  A sub-fetch that returns at its
\* first guard finishes in the same step and gives the permit back.
TaskStart(i) ==
    /\ Running
    /\ st[i] = "pending"
    /\ \A j \in Tasks : j < i => st[j] # "pending"
    /\ sem > 0
    /\ IF CallsNetwork(i, query, keys)
       THEN /\ st' = [st EXCEPT ![i] = "running"]
            /\ sem' = Acquire(sem)
            /\ UNCHANGED <<returned, results>>
       ELSE /\ st' = [st EXCEPT ![i] = "done"]
            /\ sem' = Release(Acquire(sem))
            /\ returned' = [returned EXCEPT ![i] = Map(EarlyResult(i, query))]
            /\ results' = StoreResult(results, i, Map(EarlyResult(i, query)))
    /\ UNCHANGED <<inputVars, collectVars, fetchVars, otherVars, mergeVars, featVars, groupVars, frameVars, overtaken>>

\* The network call of sub-fetch i ends and the sub-fetch finishes.
TaskFinish(i, outcome) ==
    /\ Running
    /\ st[i] = "running"
    /\ sem' = Release(sem)
    /\ IF SubFetchRaises(outcome)
       THEN /\ st' = [st EXCEPT ![i] = "raised"]
            /\ UNCHANGED <<returned, results>>
       ELSE /\ st' = [st EXCEPT ![i] = "done"]
            /\ returned' = [returned EXCEPT ![i] = Map(SubFetchResult(i, query, outcome))]
            /\ results' = StoreResult(results, i, Map(SubFetchResult(i, query, outcome)))
    /\ overtaken' = IF \E j \in Tasks : j < i /\ st[j] = "running"
                    THEN overtaken \cup {"fetch"} ELSE overtaken
    /\ UNCHANGED <<inputVars, collectVars, fetchVars, otherVars, mergeVars, featVars, groupVars, frameVars>>

\* A sub-fetch raised: asyncio.gather raises at once and fetch with it, while
\* the other sub-fetches are left as they are.
GatherRaise ==
    /\ Running
    /\ fetchPc = "gather"
    /\ \E i \in Tasks : st[i] = "raised"
    /\ fetchPc' = "raised"
    /\ fetchErr' = "AttributeError"
    /\ UNCHANGED <<inputVars, collectVars, seedRead, payload, folded, enriched,
                   taskVars, otherVars, mergeVars, featVars, groupVars, frameVars, overtaken>>

\* fetch returns `p`: the gather of collect keeps it in the slot of the source.
FetchReturn(p) ==
    /\ fetchPc' = "done"
    /\ payload' = p
    /\ raw' = StoreResult(raw, 1, Map(p))

\* Every sub-fetch returned: lines 75-91, up to the first await of the
\* enrichment (or to the return, when there is nothing to await).
GatherDone ==
    /\ Running
    /\ fetchPc = "gather"
    /\ \A i \in Tasks : st[i] = "done"
    /\ LET f == FoldDeepMerge(payload, Payloads(results))
           p == ResolveDomain(f, query.domain)
           founders == FoundersOf(p)
       IN  /\ folded' = Map(f)
           /\ IF Truthy(founders) /\ "proxycurl_key" \in keys
              THEN /\ fetchPc' = "enrich"
                   /\ payload' = p
                   /\ UNCHANGED raw
              ELSE FetchReturn(ResolveName(SetFounders(p, founders.l), query.name))
    /\ UNCHANGED <<inputVars, collectPc, merged, fetchErr, seedRead, enriched,
                   taskVars, otherVars, mergeVars, featVars, groupVars, frameVars, overtaken>>

\* One iteration of the loop of _proxycurl_enrich_founders; after the last
\* one, lines 85-91.
EnrichFounder(outcome) ==
    /\ Running
    /\ fetchPc = "enrich"
    /\ LET founders == FoundersOf(payload).l
           founder == founders[Len(enriched) + 1]
           domain == ResolvedDomain(payload, query.domain)
           next == Append(enriched, EnrichOne(founder, outcome))
       IN  /\ outcome \in EnrichOutcomes(founder, domain)
           /\ enriched' = next
           /\ IF Len(next) = Len(founders)
              THEN FetchReturn(ResolveName(SetFounders(payload, next), query.name))
              ELSE UNCHANGED <<fetchPc, payload, raw>>
    /\ UNCHANGED <<inputVars, collectPc, merged, fetchErr, seedRead, folded,
                   taskVars, otherVars, mergeVars, featVars, groupVars, frameVars, overtaken>>

\* The second source's fetch returns a payload or raises.  Its first step runs
\* after the first step of the source declared before it.
OtherFinish(p) ==
    /\ Running
    /\ fetchPc # "start"
    /\ otherSt = "running"
    /\ otherSt' = "done"
    /\ otherRet' = Map(p)
    /\ raw' = StoreResult(raw, 2, Map(p))
    /\ overtaken' = IF fetchPc # "done" THEN overtaken \cup {"collect"} ELSE overtaken
    /\ UNCHANGED <<inputVars, collectPc, merged, fetchVars, taskVars, mergeVars, featVars, groupVars, frameVars>>

OtherRaise ==
    /\ Running
    /\ fetchPc # "start"
    /\ otherSt = "running"
    /\ otherSt' = "raised"
    /\ UNCHANGED <<inputVars, collectVars, fetchVars, taskVars, otherRet, mergeVars, featVars, groupVars, frameVars, overtaken>>

\* A source's fetch raised: asyncio.gather raises at once and collect with it.
CollectRaise ==
    /\ Running
    /\ fetchPc = "raised" \/ otherSt = "raised"
    /\ collectPc' = "raised"
    /\ UNCHANGED <<inputVars, raw, merged, fetchVars, taskVars, otherVars, mergeVars, featVars, groupVars, frameVars, overtaken>>

\* Every source returned: lines 38-39 of collect.
CollectReturn ==
    /\ Running
    /\ fetchPc = "done"
    /\ otherSt = "done"
    /\ LET m == MergePayloads(Payloads(raw))
       IN  /\ merged' = IF m.err THEN NoResult ELSE Map(m.v)
           /\ collectPc' = IF m.err \/ BuildRaises(m.v) THEN "raised" ELSE "returned"
    /\ UNCHANGED <<inputVars, raw, fetchVars, taskVars, otherVars, mergeVars, featVars, groupVars, frameVars, overtaken>>

Next ==
    \/ Collect
    \/ FetchBegin
    \/ \E i \in Tasks : TaskStart(i)
    \/ \E i \in Tasks, outcome \in CallOutcomes : TaskFinish(i, outcome)
    \/ GatherRaise
    \/ GatherDone
    \/ \E outcome \in {"default", "mapped"} : EnrichFounder(outcome)
    \/ \E p \in OtherPayloads : OtherFinish(p)
    \/ OtherRaise
    \/ CollectRaise
    \/ CollectReturn

Spec == Init /\ [][Next]_vars


\* ------------------------------------------- the merges as pure functions
\* The payloads the pure merge specification draws from: a profile section
\* with a scalar field (absent, null or one of two strings) and a nested
\* mapping, a list section and a scalar section, and the payloads the SERP
\* and Crunchbase sub-fetches return.
MergeProfiles ==
    {p \in UNION {[D -> {Null, Str("a"), Str("b"), Map([city |-> Str("x")]),
                         Map([country |-> Str("y")])}] :
                  D \in SUBSET {"name", "geo"}} :
        /\ "name" \in DOMAIN p => ~IsMap(p["name"])
        /\ "geo" \in DOMAIN p => IsMap(p["geo"])}

MergeExtras ==
    {EmptyDict,
     [founders |-> List(<<Str("f")>>), score |-> Num(1)],
     [founders |-> List(<<Str("g")>>), score |-> Null]}

SampleQuery == [name |-> Str("Acme"), domain |-> Null, profile_path |-> Null]

MergeUniverse ==
    {e : e \in MergeExtras}
    \cup {Put(e, "profile", Map(p)) : e \in MergeExtras, p \in MergeProfiles}
    \cup {OkResult(SerpTask, SampleQuery), OkResult(CrunchbaseTask, SampleQuery)}

InitMerge ==
    /\ query = SampleQuery
    /\ keys = {}
    /\ limit = 1
    /\ Idle
    /\ FeaturesIdle
    /\ FrameIdle
    /\ mergeIn \in UNION {[1..n -> MergeUniverse] : n \in 1..MaxPayloads}
    /\ deepOut = NoResult
    /\ flatOut = NoResult

\* ---- _deep_merge on objects: which object of which input the fold changes
\* A mapping or sequence with the object it is: own = <<i, path>> is the
\* object at `path` of input i, input 0 being the accumulator itself.
Obj(kind, own, content) == [t |-> kind, own |-> own, c |-> content]

\* `base[key] = value`: the accumulator refers to the object of input i at
\* path, and to the objects nested in it.
RECURSIVE Adopt(_, _, _)
Adopt(value, i, path) ==
    IF IsMap(value)
    THEN Obj("map", <<i, path>>,
             [k \in DOMAIN value.m |-> Adopt(value.m[k], i, Append(path, k))])
    ELSE IF IsList(value) THEN Obj("list", <<i, path>>, value.l)
    ELSE value

\* The content of an object of the accumulator.
RECURSIVE Content(_)
Content(node) ==
    IF node.t = "map" /\ "own" \in DOMAIN node
    THEN Map([k \in DOMAIN node.c |-> Content(node.c[k])])
    ELSE IF node.t = "list" /\ "own" \in DOMAIN node THEN List(node.c)
    ELSE node

IsObj(node) == "own" \in DOMAIN node

\* Every object in a subtree of the accumulator, with its content.
RECURSIVE Objects(_)
Objects(node) ==
    IF ~IsObj(node) THEN {}
    ELSE {<<node.own, Content(node)>>}
         \cup (IF node.t = "map"
               THEN UNION {Objects(node.c[k]) : k \in DOMAIN node.c}
               ELSE {})

\* _deep_merge(base, update) for update = the mapping at `path` of input i:
\* c is the content of base afterwards, gone the objects the accumulator no
\* longer refers to, with the content they were left with.
RECURSIVE ObjMerge(_, _, _, _)
ObjMerge(base, update, i, path) ==
    LET both == DOMAIN base \cap DOMAIN update
        rec(k) == ObjMerge(base[k].c, update[k].m, i, Append(path, k))
        mapsAt(k) == IsObj(base[k]) /\ base[k].t = "map" /\ IsMap(update[k])
        listsAt(k) == IsObj(base[k]) /\ base[k].t = "list" /\ IsList(update[k])
    IN  [c |-> [k \in DOMAIN base \cup DOMAIN update |->
                  IF k \notin DOMAIN update THEN base[k]
                  ELSE IF k \notin DOMAIN base
                      THEN Adopt(update[k], i, Append(path, k))
                  ELSE IF mapsAt(k) THEN [base[k] EXCEPT !.c = rec(k).c]
                  ELSE IF listsAt(k) THEN [base[k] EXCEPT !.c = @ \o update[k].l]
                  ELSE IF update[k] # Null
                      THEN Adopt(update[k], i, Append(path, k))
                  ELSE base[k]],
         gone |-> UNION {IF mapsAt(k) THEN rec(k).gone
                         ELSE IF listsAt(k) THEN {}
                         ELSE IF update[k] # Null THEN Objects(base[k])
                         ELSE {} : k \in both}]

\* for result in results: payload = self._deep_merge(payload, result), from
\* input i on.
RECURSIVE ObjFold(_, _, _)
ObjFold(acc, inputs, i) ==
    IF i > Len(inputs) THEN acc
    ELSE LET step == ObjMerge(acc.c, inputs[i], i, <<>>)
         IN  ObjFold([c |-> step.c, gone |-> acc.gone \cup step.gone], inputs, i + 1)

\* What the value at `path` of input i holds once `heap` gives the content of
\* every object the accumulator referred to.
RECURSIVE ValueAfter(_, _, _, _)
ValueAfter(value, i, path, heap) ==
    IF \E o \in heap : o[1] = <<i, path>>
    THEN (CHOOSE o \in heap : o[1] = <<i, path>>)[2]
    ELSE IF IsMap(value)
    THEN Map([k \in DOMAIN value.m |->
                ValueAfter(value.m[k], i, Append(path, k), heap)])
    ELSE value

\* The inputs of the fold as they are after it.
InputsAfterFold(inputs) ==
    LET done == ObjFold([c |-> EmptyDict, gone |-> {}], inputs, 1)
        heap == done.gone \cup UNION {Objects(done.c[k]) : k \in DOMAIN done.c}
    IN  [i \in DOMAIN inputs |->
            [k \in DOMAIN inputs[i] |-> ValueAfter(inputs[i][k], i, <<k>>, heap)]]

\* The fold of fetch (lines 75-76) over mergeIn, from an empty accumulator.
DeepFold ==
    /\ deepOut = NoResult
    /\ deepOut' = Map(FoldDeepMerge(EmptyDict, mergeIn))
    /\ deepIn' = [t |-> "inputs", p |-> InputsAfterFold(mergeIn)]
    /\ UNCHANGED <<inputVars, collectVars, fetchVars, taskVars, otherVars,
                   mergeIn, flatOut, overtaken, featVars, groupVars, flatIn>>

\* FeatureCollector._merge_payloads(mergeIn).  It builds a new mapping or
\* sequence for every value it merges ({**a, **b}, [*a, *b]) and changes no
\* object in place, so the payloads it was given are as they were.
FlatMerge ==
    /\ flatOut = NoResult
    /\ flatOut' = [t |-> "merged", err |-> MergePayloads(mergeIn).err,
                   m |-> MergePayloads(mergeIn).v]
    /\ flatIn' = [t |-> "inputs", p |-> mergeIn]
    /\ UNCHANGED <<inputVars, collectVars, fetchVars, taskVars, otherVars,
                   mergeIn, deepOut, overtaken, featVars, groupVars, deepIn>>

NextMerge == DeepFold \/ FlatMerge

SpecMerge == InitMerge /\ [][NextMerge]_vars


\* ------------------------------------------------------------ properties
ValidQuery == Truthy(query.name) \/ Truthy(query.domain)

\* The query names a seed file that is not on disk.
SeedMissing == query.profile_path = Str("missing.json")

InitialPayload == IF Truthy(query.profile_path) THEN SeedPayload ELSE EmptyDict

\* What each sub-fetch coroutine itself returned, in declaration order.
ReturnedInOrder == [i \in Tasks |-> returned[i].m]

InFlight == {i \in Tasks : st[i] = "running"}

\* C1: the sub-fetch results are folded into the seed in declaration order
\* (SERP, jobs, news, Crunchbase, ProductHunt, OpenCorporates) and the source
\* payloads are merged in source order, whatever order they completed in.
C1_MergedInDeclarationOrder ==
    /\ folded # NoResult
        => folded.m = FoldDeepMerge(InitialPayload, ReturnedInOrder)
    /\ merged # NoResult
        => merged.m = MergePayloads(<<payload, otherRet.m>>).v

\* A sub-fetch finished while one declared before it was still in flight, the
\* second source finished before the first, both merges ran, and the order
\* matters: SERP and Crunchbase disagree on profile.name, and merging the two
\* source payloads the other way round gives another result.
C1_Witness ==
    /\ overtaken = {"fetch", "collect"}
    /\ folded # NoResult
    /\ merged # NoResult
    /\ returned[CrunchbaseTask].m # EmptyDict
    /\ merged.m # MergePayloads(<<otherRet.m, payload>>).v

\* C2: for a valid query whose seed file is not missing, collect returns a
\* feature set whatever the external calls do (the second source not raising).
C2_AlwaysReturnsFeatureSet ==
    (ValidQuery /\ ~SeedMissing /\ otherSt # "raised") => collectPc # "raised"

\* C3: no sub-fetch lets an exception escape: a raising, timed-out or
\* malformed response yields an empty or partial payload.
C3_SubFetchNeverRaises ==
    /\ \A i \in Tasks : st[i] # "raised"
    /\ fetchErr # "AttributeError"

\* C4: with neither a name nor a domain, fetch raises the invalid-query error
\* before the seed file is read and before any sub-fetch is created.
C4_InvalidQueryFailsFirst ==
    ~ValidQuery =>
        /\ fetchPc \in {"idle", "start", "raised"}
        /\ fetchPc = "raised" => fetchErr = "InvalidQuery"
        /\ ~seedRead
        /\ \A i \in Tasks : st[i] = "idle"
        /\ payload = EmptyDict
        /\ raw[1] = NoResult
        /\ collectPc # "returned"

\* The invalid query carried a seed path, fetch raised, and collect raised.
C4_Witness ==
    /\ ~ValidQuery
    /\ Truthy(query.profile_path)
    /\ fetchPc = "raised"
    /\ fetchErr = "InvalidQuery"
    /\ collectPc = "raised"

\* C5: with a valid query and a seed path naming no file, fetch raises the
\* seed-not-found error before any sub-fetch is created, no payload is
\* returned for the source, and collect does not return a feature set.
C5_SeedNotFoundSurfaces ==
    (ValidQuery /\ SeedMissing) =>
        /\ fetchPc \in {"idle", "start", "raised"}
        /\ fetchPc = "raised" => (fetchErr = "SeedNotFound" /\ seedRead)
        /\ \A i \in Tasks : st[i] = "idle"
        /\ payload = EmptyDict
        /\ raw[1] = NoResult
        /\ collectPc # "returned"

\* The seed was missing, the second source did not raise, and collect raised.
C5_Witness ==
    /\ ValidQuery
    /\ SeedMissing
    /\ fetchErr = "SeedNotFound"
    /\ otherSt # "raised"
    /\ collectPc = "raised"


\* The payloads among P that have the top-level key, and those that have the
\* field inside that section.
Suppliers(P, key) == {i \in DOMAIN P : key \in DOMAIN P[i]}

FieldSuppliers(P, key, field) ==
    {i \in Suppliers(P, key) : IsMap(P[i][key]) /\ field \in DOMAIN P[i][key].m}

Last(S) == CHOOSE i \in S : \A j \in S : j <= i

IsScalar(v) == ~IsMap(v) /\ ~IsList(v)

AllSections(P) == UNION {DOMAIN P[i] : i \in DOMAIN P}

AllFields(P, key) ==
    UNION {DOMAIN P[i][key].m : i \in {j \in Suppliers(P, key) : IsMap(P[j][key])}}

\* Out is the merge of P with the last non-null scalar winning at every top-level
\* key and every field of a section.
LastNonNullWins(P, Out) ==
    /\ \A key \in AllSections(P) :
        LET nonNull == {i \in Suppliers(P, key) : P[i][key] # Null}
        IN  ((\A i \in Suppliers(P, key) : IsScalar(P[i][key])) /\ nonNull # {})
                => (key \in DOMAIN Out /\ Out[key] = P[Last(nonNull)][key])
    /\ \A key \in AllSections(P) : \A field \in AllFields(P, key) :
        LET sup == FieldSuppliers(P, key, field)
            nonNull == {i \in sup : P[i][key].m[field] # Null}
        IN  ((\A i \in Suppliers(P, key) : IsMap(P[i][key]))
             /\ (\A i \in sup : IsScalar(P[i][key].m[field]))
             /\ nonNull # {})
                => /\ key \in DOMAIN Out
                   /\ IsMap(Out[key])
                   /\ field \in DOMAIN Out[key].m
                   /\ Out[key].m[field] = P[Last(nonNull)][key].m[field]

\* Out keeps, with its value, every top-level key and every field of a merged
\* section that exactly one payload of P has.
KeepsUniqueKeys(P, Out) ==
    /\ \A key \in AllSections(P) :
        Cardinality(Suppliers(P, key)) = 1
            => (key \in DOMAIN Out
                /\ Out[key] = P[Last(Suppliers(P, key))][key])
    /\ \A key \in AllSections(P) : \A field \in AllFields(P, key) :
        LET sup == FieldSuppliers(P, key, field)
        IN  ((\A i \in Suppliers(P, key) : IsMap(P[i][key]))
             /\ Cardinality(sup) = 1)
                => /\ key \in DOMAIN Out
                   /\ IsMap(Out[key])
                   /\ field \in DOMAIN Out[key].m
                   /\ Out[key].m[field] = P[Last(sup)][key].m[field]

\* C6: in both merge steps, where several payloads give a scalar for one key
\* (top level or inside a section), the output holds the last non-null one; a
\* null never replaces a value.
C6_LastNonNullWinsInBothMerges ==
    /\ deepOut # NoResult => LastNonNullWins(mergeIn, deepOut.m)
    /\ flatOut # NoResult => (~flatOut.err /\ LastNonNullWins(mergeIn, flatOut.m))

\* C7: in both merge steps, a key (a section, or a field inside a merged
\* section) that exactly one payload has is in the output with that value.
C7_MergeNeverDropsData ==
    /\ deepOut # NoResult => KeepsUniqueKeys(mergeIn, deepOut.m)
    /\ flatOut # NoResult => (~flatOut.err /\ KeepsUniqueKeys(mergeIn, flatOut.m))

\* Both merges ran on the SERP result followed by the Crunchbase result:
\* headquarters comes from SERP only, team_size and the funding section from
\* Crunchbase only, and all three are in both outputs.
C7_Witness ==
    /\ mergeIn = <<OkResult(SerpTask, SampleQuery),
                   OkResult(CrunchbaseTask, SampleQuery)>>
    /\ deepOut # NoResult
    /\ flatOut # NoResult
    /\ \A out \in {deepOut.m, flatOut.m} :
        /\ out["profile"].m["headquarters"] = Str("Oakland")
        /\ out["profile"].m["team_size"] = Str("c_00011_00050")
        /\ "funding" \in DOMAIN out


Finished(pc) == pc \in {"done", "raised"}

\* C8: collect merges only after every source's fetch has completed, and no
\* source's fetch is still running when collect returns or raises.
C8_NoFetchRunningAtEnd ==
    /\ merged # NoResult => (fetchPc = "done" /\ otherSt = "done")
    /\ collectPc \in {"returned", "raised"}
        => (Finished(fetchPc) /\ Finished(otherSt))

\* C9: never more than max_concurrency sub-fetches hold a permit, and the
\* permits held and the permits free always add up to max_concurrency, so a
\* sub-fetch that finishes or raises gives its permit back.
C9_ConcurrencyBound ==
    /\ Cardinality(InFlight) <= limit
    /\ (\E i \in Tasks : st[i] # "idle") => sem + Cardinality(InFlight) = limit

\* Every permit is taken, a sub-fetch is waiting, and one of the sub-fetches in
\* flight took the permit of an earlier one that raised.
C9_Witness ==
    /\ Cardinality(InFlight) = limit
    /\ \E k \in Tasks : st[k] = "pending"
    /\ \E i, j \in Tasks : i < j /\ st[i] = "raised" /\ st[j] = "running"

\* The values of one profile field in fold order: the seed, then what each
\* sub-fetch returned, in declaration order.
SuppliedSeq(field) ==
    [i \in 1..(NTasks + 1) |->
        Get(ProfileOf((<<InitialPayload>> \o ReturnedInOrder)[i]), field, Null)]

Supplied(field) == {SuppliedSeq(field)[i] : i \in 1..(NTasks + 1)} \ {Null}

LastSupplied(field) ==
    IF Supplied(field) = {} THEN Null
    ELSE SuppliedSeq(field)[Last({i \in 1..(NTasks + 1) : SuppliedSeq(field)[i] # Null})]

FinalProfile(field) == Get(ProfileOf(payload), field, Null)

\* C10: after fetch, profile.domain and profile.name are a value the seed or a
\* sub-fetch supplied if there is one and the query's otherwise, and when a
\* value other than the query's was supplied the query's does not replace it.
C10_SuppliedValueKept ==
    fetchPc = "done" =>
        \A field \in {"domain", "name"} :
            /\ Supplied(field) = {} => FinalProfile(field) = query[field]
            /\ Supplied(field) # {} => FinalProfile(field) \in Supplied(field)
            /\ (\E v \in Supplied(field) : v # query[field])
                   => FinalProfile(field) # query[field]

\* C10, amended: after fetch, profile.domain and profile.name are the last
\* non-null value in fold order (seed, then sub-fetch results in declaration
\* order, the SERP result carrying the query's own name and domain) and the
\* query's value when there is none.
C10_LastSuppliedElseQuery ==
    fetchPc = "done" =>
        \A field \in {"domain", "name"} :
            FinalProfile(field) = Or(LastSupplied(field), query[field])

\* fetch returned for a query with a domain and a seed with another domain,
\* and the returned profile has the query's domain, not the seed's.
C10_Witness ==
    /\ fetchPc = "done"
    /\ seedRead
    /\ Truthy(query.domain)
    /\ FinalProfile("domain") = query.domain
    /\ FinalProfile("domain") # ProfileOf(InitialPayload)["domain"]


\* ------------------------------------------- merges of values of any type
\* The values one section takes in the type-conflict specification: null,
\* scalars, sequences, and mappings that nest a sequence and, two and three
\* levels down, further mappings.
ShapeValues ==
    {Null, Num(1), Str("s"),
     List(<<Str("a")>>),
     List(<<Str("a"), Str("b")>>),
     Map([tags |-> List(<<Str("a")>>),
          deep |-> Map([x |-> Num(1), more |-> Map([p |-> Num(1)])])]),
     Map([tags |-> List(<<Str("b")>>),
          deep |-> Map([y |-> Num(2), more |-> Map([q |-> Num(2)])])])}

ShapeUniverse == {EmptyDict} \cup {[section |-> v] : v \in ShapeValues}

InitShapes ==
    /\ query = SampleQuery
    /\ keys = {}
    /\ limit = 1
    /\ Idle
    /\ FeaturesIdle
    /\ FrameIdle
    /\ mergeIn \in UNION {[1..n -> ShapeUniverse] : n \in 1..MaxPayloads}
    /\ deepOut = NoResult
    /\ flatOut = NoResult

SpecShapes == InitShapes /\ [][NextMerge]_vars

\* The payloads to merge, each as one mapping value.
MergeInputs == [i \in DOMAIN mergeIn |-> Map(mergeIn[i])]

\* The values the members of `vals` that have `key` hold at it, in order.
RECURSIVE At(_, _)
At(vals, key) ==
    IF vals = <<>> THEN <<>>
    ELSE (IF key \in DOMAIN Head(vals).m THEN <<Head(vals).m[key]>> ELSE <<>>)
         \o At(Tail(vals), key)

AllMaps(vals) == \A i \in DOMAIN vals : IsMap(vals[i])

AllLists(vals) == \A i \in DOMAIN vals : IsList(vals[i])

KeysOf(vals) == UNION {DOMAIN vals[i].m : i \in DOMAIN vals}

\* `out` merges the mappings `vals` key by key at every depth: wherever all
\* the values found at one path are mappings, `out` holds a mapping there with
\* every key of every one of them.
RECURSIVE MergedKeyByKey(_, _)
MergedKeyByKey(vals, out) ==
    (vals # <<>> /\ AllMaps(vals)) =>
        /\ IsMap(out)
        /\ \A key \in KeysOf(vals) :
            /\ key \in DOMAIN out.m
            /\ MergedKeyByKey(At(vals, key), out.m[key])

\* C18: where the existing and the incoming value are both mappings the merge
\* recurses key by key at every depth, in the fold of fetch and in the merge of
\* collect: a nested mapping is merged into, never replaced.
C18_MappingsMergedAtEveryDepth ==
    /\ deepOut # NoResult => MergedKeyByKey(MergeInputs, deepOut)
    /\ flatOut # NoResult
        => (~flatOut.err /\ MergedKeyByKey(MergeInputs, Map(flatOut.m)))


RECURSIVE Concat(_)
Concat(vals) == IF vals = <<>> THEN <<>> ELSE Head(vals).l \o Concat(Tail(vals))

\* Wherever all the values found at one path of `vals` are sequences, `out`
\* holds there their concatenation, in order.
RECURSIVE Concatenated(_, _)
Concatenated(vals, out) ==
    IF vals = <<>> THEN TRUE
    ELSE IF AllLists(vals) THEN out = List(Concat(vals))
    ELSE IF AllMaps(vals)
    THEN /\ IsMap(out)
         /\ \A key \in KeysOf(vals) :
             /\ key \in DOMAIN out.m
             /\ Concatenated(At(vals, key), out.m[key])
    ELSE TRUE

\* C19: where the existing and the incoming value at a key are both sequences
\* the merged value is the existing elements followed by the incoming ones,
\* duplicates kept (when the merge of collect raises nothing).
C19_SequencesConcatenated ==
    /\ deepOut # NoResult => Concatenated(MergeInputs, deepOut)
    /\ (flatOut # NoResult /\ ~flatOut.err)
        => Concatenated(MergeInputs, Map(flatOut.m))

Kind(v) == IF IsMap(v) THEN "mapping" ELSE IF IsList(v) THEN "sequence" ELSE "scalar"

\* What the overwrite rule gives for an incoming value that meets an existing
\* one of another type.
Overwritten(existing, incoming) == IF incoming # Null THEN incoming ELSE existing

\* C20: when two merged payloads disagree on the type at a key (mapping,
\* sequence or scalar, either way round) no merge raises and both give the
\* incoming value if it is non-null and the existing one otherwise.
C20_TypeConflictOverwrites ==
    Len(mergeIn) = 2 =>
        \A key \in DOMAIN mergeIn[1] \cap DOMAIN mergeIn[2] :
            Kind(mergeIn[1][key]) # Kind(mergeIn[2][key]) =>
                /\ deepOut # NoResult
                    => deepOut.m[key] = Overwritten(mergeIn[1][key], mergeIn[2][key])
                /\ flatOut # NoResult
                    => /\ ~flatOut.err
                       /\ flatOut.m[key] = Overwritten(mergeIn[1][key], mergeIn[2][key])

\* ------------------------------------------- the feature blocks on their own
\* SpecFeatures: FeatureCollector._build_features on one merged payload, the
\* three blocks in the order of lines 57-59, and then one founder of the
\* payload improved and the founder block built again.
InitFeatures ==
    /\ query = SampleQuery
    /\ keys = {}
    /\ limit = 1
    /\ Idle
    /\ mergeIn = <<>>
    /\ deepOut = NoResult
    /\ flatOut = NoResult
    /\ featIn \in FeatureUniverse
    /\ ssffOut = NoResult
    /\ founderOut = NoResult
    /\ externalOut = NoResult
    /\ prevLevel = NoResult
    /\ FrameIdle

nonFeatVars ==
    <<inputVars, collectVars, fetchVars, taskVars, otherVars, mergeIn, deepOut,
      flatOut, overtaken, groupVars, frameVars>>

\* self.ssff_block.build(payload)
BuildPrediction ==
    /\ ssffOut = NoResult
    /\ ssffOut' = PredictionBuild(featIn)
    /\ UNCHANGED <<nonFeatVars, featIn, founderOut, externalOut, prevLevel>>

\* self.founder_block.build(payload), reached when the block before returned
BuildFounder ==
    /\ IsMap(ssffOut)
    /\ founderOut = NoResult
    /\ founderOut' = FounderBuild(featIn)
    /\ UNCHANGED <<nonFeatVars, featIn, ssffOut, externalOut, prevLevel>>

\* self.external_block.build(payload), reached when the blocks before returned
BuildExternal ==
    /\ IsMap(founderOut)
    /\ externalOut = NoResult
    /\ externalOut' = ExternalBuild(featIn)
    /\ UNCHANGED <<nonFeatVars, featIn, ssffOut, founderOut, prevLevel>>

\* The education levels and school tiers from the lowest score to the highest.
EducationOrder == <<"Unknown", "Associate", "Bachelors", "Masters", "PhD">>

TierOrder == <<"Unknown", "Tier-3", "Tier-2", "Tier-1">>

RankIn(order, s) == CHOOSE j \in DOMAIN order : order[j] = s

\* The records that are rec with one attribute improved: a higher education
\* level, a higher school tier, a flag set, or more previous exits.
Improved(rec) ==
    LET f == rec.m
        level == Get(f, "education_level", Unknown).s
        tier == Get(f, "school_tier", Unknown).s
        exits == IntOf(Get(f, "previous_exits", Num(0))).n
    IN  {Map(Put(f, "education_level", Str(EducationOrder[j]))) :
            j \in {k \in DOMAIN EducationOrder : k > RankIn(EducationOrder, level)}}
        \cup {Map(Put(f, "school_tier", Str(TierOrder[j]))) :
            j \in {k \in DOMAIN TierOrder : k > RankIn(TierOrder, tier)}}
        \cup {Map(Put(f, flag, Bool(TRUE))) :
            flag \in {g \in {"leadership_experience", "top_company_experience"} :
                        ~Truthy(Get(f, g, Bool(FALSE)))}}
        \cup {Map(Put(f, "previous_exits", Num(x))) : x \in (exits + 1)..MaxExits}

\* One founder of the payload improved, and FounderFeatureBlock.build again;
\* prevLevel keeps the level before.
RaiseFounder ==
    /\ externalOut # NoResult
    /\ prevLevel = NoResult
    /\ "founders" \in DOMAIN featIn
    /\ \E i \in DOMAIN featIn.founders.l :
         \E better \in Improved(featIn.founders.l[i]) :
            /\ featIn' = Put(featIn, "founders",
                             List([featIn.founders.l EXCEPT ![i] = better]))
            /\ founderOut' = FounderBuild(featIn')
    /\ prevLevel' = founderOut.m.founder_level
    /\ UNCHANGED <<nonFeatVars, ssffOut, externalOut>>

NextFeatures == BuildPrediction \/ BuildFounder \/ BuildExternal \/ RaiseFounder

SpecFeatures == InitFeatures /\ [][NextFeatures]_vars

\* ---------------------------------------------------------------- C11
Built == IsMap(ssffOut) /\ IsMap(founderOut) /\ IsMap(externalOut)

\* C11: once the three blocks are built, every value inside features_ssff,
\* features_founder and features_external is a scalar: no block holds a
\* mapping or a sequence, whatever the merged payload.
C11_FeatureValuesScalar ==
    Built =>
        \A block \in {ssffOut, founderOut, externalOut} :
            \A name \in DOMAIN block.m : IsScalar(block.m[name])

\* ---------------------------------------------------------------- C12
FoundersIn == Get(featIn, "founders", List(<<>>)).l

\* C12: whenever FounderFeatureBlock.build has returned, fifs_score is within
\* [-1, 1] and founder_count is the number of founder records; for an empty or
\* absent founders list founder_level is "L1", fifs_score is 0.0 and
\* founder_count is 0.
C12_FounderContract ==
    IsMap(founderOut) =>
        LET out == founderOut.m
        IN  /\ -out.fifs_score.den <= out.fifs_score.num
            /\ out.fifs_score.num <= out.fifs_score.den
            /\ out.fifs_score.den > 0
            /\ out.founder_count = Num(Len(FoundersIn))
            /\ FoundersIn = <<>> =>
                  /\ out.founder_level = Str("L1")
                  /\ out.fifs_score.num = 0
                  /\ out.founder_count = Num(0)

\* Two founders whose mean alignment is above 1, built: the clamp acts.
C12_Witness ==
    /\ IsMap(founderOut)
    /\ Len(FoundersIn) = 2
    /\ \A i \in 1..2 : FoundersIn[i].m.role_alignment = Num(150)
    /\ founderOut.m.fifs_score = Quotient(200, 200)
    /\ founderOut.m.founder_count = Num(2)

\* ---------------------------------------------------------------- C13
\* The order L1 < L2 < L3 < L4 < L5.
LevelRank(level) == RankIn(<<"L1", "L2", "L3", "L4", "L5">>, level.s)

\* C13: founder level is monotonic: after one founder's education level or
\* school tier is raised, a leadership or top-company flag is set, or
\* previous_exits is increased, with everything else unchanged, founder_level
\* is not lower than it was before.
C13_LevelMonotonic ==
    prevLevel # NoResult =>
        /\ IsMap(founderOut)
        /\ LevelRank(founderOut.m.founder_level) >= LevelRank(prevLevel)

\* An improvement that lifted a two-founder list from L2 to L3.
C13_Witness ==
    /\ prevLevel = Str("L2")
    /\ IsMap(founderOut)
    /\ founderOut.m.founder_level = Str("L3")
    /\ Len(FoundersIn) = 2

\* ---------------------------------------------------------------- C17
\* The score the claim gives one founder record, in tenths: education base
\* plus tier bonus, 1.0 for leadership, 1.5 for a top company, 1.5 for each
\* of up to two exits.
ClaimedScore(rec) ==
    LET level == Get(rec.m, "education_level", Unknown).s
        tier == Get(rec.m, "school_tier", Unknown).s
        exits == Get(rec.m, "previous_exits", Num(0)).n
    IN  (CASE level = "PhD" -> 25 [] level = "Masters" -> 20
           [] level = "Bachelors" -> 15 [] level = "Associate" -> 10
           [] OTHER -> 5)
        + (CASE tier = "Tier-1" -> 15 [] tier = "Tier-2" -> 10
             [] tier = "Tier-3" -> 5 [] OTHER -> 0)
        + (IF Get(rec.m, "leadership_experience", Bool(FALSE)) = Bool(TRUE) THEN 10 ELSE 0)
        + (IF Get(rec.m, "top_company_experience", Bool(FALSE)) = Bool(TRUE) THEN 15 ELSE 0)
        + 15 * (IF exits < 2 THEN exits ELSE 2)

RECURSIVE ClaimedTotal(_)
ClaimedTotal(recs) ==
    IF recs = <<>> THEN 0 ELSE ClaimedScore(Head(recs)) + ClaimedTotal(Tail(recs))

\* C17: for a non-empty founder list, founder_level is the level of the
\* average claimed score: average >= 5.0 gives L5, >= 4.0 L4, >= 3.0 L3,
\* >= 1.5 L2, anything lower L1.
C17_LevelFromAverageScore ==
    (IsMap(founderOut) /\ FoundersIn # <<>>) =>
        LET total == ClaimedTotal(FoundersIn)
            n == Len(FoundersIn)
        IN  founderOut.m.founder_level =
                Str(IF total >= 50 * n THEN "L5"
                    ELSE IF total >= 40 * n THEN "L4"
                    ELSE IF total >= 30 * n THEN "L3"
                    ELSE IF total >= 15 * n THEN "L2"
                    ELSE "L1")

\* Two founders of different scores whose average is exactly 4.0, built: L4.
C17_Witness ==
    /\ IsMap(founderOut)
    /\ Len(FoundersIn) = 2
    /\ ClaimedScore(FoundersIn[1]) # ClaimedScore(FoundersIn[2])
    /\ ClaimedTotal(FoundersIn) = 80
    /\ founderOut.m.founder_level = Str("L4")

\* ---------------------------------------------------------------- C14
QuantSections == {"market", "competition", "sentiment", "compliance"}

\* The value the payload holds for a quantitative field, 0 when it is absent.
FieldIn(f) == Get(Section(featIn, f[2]).m, f[3], Num(0))

\* When none of the four sections is in the payload, build returns and every
\* quantitative feature is 0.
AllZeroWhenAbsent ==
    (externalOut # NoResult /\ DOMAIN featIn \cap QuantSections = {}) =>
        /\ IsMap(externalOut)
        /\ \A f \in ExternalFields : externalOut.m[f[1]] = Num(0)

\* C14 as stated: with none of market, competition, sentiment, compliance in
\* the payload the seven quantitative features are 0 and build raises no
\* error; and every feature build returns has the numeric value its field has
\* in the payload, unchanged.
C14_NumericPassedThrough ==
    /\ AllZeroWhenAbsent
    /\ IsMap(externalOut) =>
          \A f \in ExternalFields :
              Hundredths(externalOut.m[f[1]]) = Hundredths(FieldIn(f))

\* C14, amended: the all-absent case as stated; a feature read with float()
\* (market_size_usd, cagr, average_sentiment, investor_diversity) has the value
\* of its field unchanged, and a feature read with int() (competitor_count,
\* patent_count, regulation_mentions) has the integer part of its field's
\* value.
C14_FloatKeptIntTruncated ==
    /\ AllZeroWhenAbsent
    /\ IsMap(externalOut) =>
          \A f \in ExternalFields :
              LET out == externalOut.m[f[1]]
                  given == Hundredths(FieldIn(f))
              IN  IF f[1] \in {"competitor_count", "patent_count", "regulation_mentions"}
                  THEN /\ out.t = "num"
                       /\ 100 * out.n <= given
                       /\ given < 100 * out.n + 100
                  ELSE Hundredths(out) = given

\* A payload whose competitor_count is 2.5, built: the feature is 2.
C14_Witness ==
    /\ IsMap(externalOut)
    /\ FieldIn(<<"competitor_count", "competition", "competitor_count", "int">>) = Frac(2, 50)
    /\ externalOut.m.competitor_count = Num(2)
    /\ externalOut.m.market_size_usd = Num(1000)

\* ---------------------------------------------------------------- C15
\* C15: with u = profile.update_frequency_per_month and
\* h = hiring.net_new_roles_last_quarter, one that is absent or no number
\* counted as 0, growth_speed is "Unknown" when both are absent, otherwise
\* "Faster" when 0.6*u + 0.4*h > 8, "Slower" when it is < 3 and "Same"
\* otherwise, the boundaries 8 and 3 included.
C15_GrowthSpeedBuckets ==
    IsMap(ssffOut) =>
        LET u == Get(Section(featIn, "profile").m, "update_frequency_per_month", Null)
            h == Get(Section(featIn, "hiring").m, "net_new_roles_last_quarter", Null)
            counted(v) == IF v.t = "num" THEN v.n ELSE 0
            tenths == 6 * counted(u) + 4 * counted(h)
        IN  ssffOut.m.growth_speed =
                IF u = Null /\ h = Null THEN Str("Unknown")
                ELSE IF tenths > 80 THEN Str("Faster")
                ELSE IF tenths < 30 THEN Str("Slower")
                ELSE Str("Same")

\* u = 8 and h = 8 give the score 8 exactly: "Same".
C15_Witness ==
    /\ IsMap(ssffOut)
    /\ Get(Section(featIn, "profile").m, "update_frequency_per_month", Null) = Num(8)
    /\ Get(Section(featIn, "hiring").m, "net_new_roles_last_quarter", Null) = Num(8)
    /\ ssffOut.m.growth_speed = Str("Same")

\* ---------------------------------------------------------------- C16
\* C16: industry_growth is the profile's explicit industry_growth label when
\* there is one; otherwise "Unknown" when market_growth_rate is missing,
\* "Yes" when it is >= 0.15, "No" when it is <= 0 and "N/A" in between.
C16_IndustryGrowthBuckets ==
    IsMap(ssffOut) =>
        LET label == Get(Section(featIn, "profile").m, "industry_growth", Null)
            rate == Get(Section(featIn, "profile").m, "market_growth_rate", Null)
        IN  ssffOut.m.industry_growth =
                IF label.t = "str" /\ label.s # "" THEN label
                ELSE IF rate = Null THEN Str("Unknown")
                ELSE IF rate.n >= 15 THEN Str("Yes")
                ELSE IF rate.n <= 0 THEN Str("No")
                ELSE Str("N/A")

\* No label and a rate of 0.15 exactly: "Yes".
C16_Witness ==
    /\ IsMap(ssffOut)
    /\ "industry_growth" \notin DOMAIN Section(featIn, "profile").m
    /\ Get(Section(featIn, "profile").m, "market_growth_rate", Null) = Num(15)
    /\ ssffOut.m.industry_growth = Str("Yes")

\* ------------------------------------------------- the merges regrouped
\* SpecGroup: three payloads A, B, C merged pairwise in both groupings, with
\* OpenDataSource._deep_merge and with FeatureCollector._merge_payloads.
InitGroup ==
    /\ query = SampleQuery
    /\ keys = {}
    /\ limit = 1
    /\ Idle
    /\ FeaturesIdle
    /\ FrameIdle
    /\ mergeIn \in [1..3 -> ShapeUniverse]
    /\ deepOut = NoResult
    /\ flatOut = NoResult

\* _merge_payloads([x, y]) on the results of two earlier calls; an earlier
\* TypeError is an error of the whole.
FlatPair(x, y) ==
    IF x.err \/ y.err THEN [err |-> TRUE, v |-> EmptyDict]
    ELSE MergePayloads(<<x.v, y.v>>)

Given(p) == [err |-> FALSE, v |-> p]

\* merge(merge(A, B), C)
GroupLeft ==
    /\ leftOut = NoResult
    /\ leftOut' =
          [deep |-> DeepMerge(DeepMerge(mergeIn[1], mergeIn[2]), mergeIn[3]),
           flat |-> FlatPair(FlatPair(Given(mergeIn[1]), Given(mergeIn[2])),
                             Given(mergeIn[3]))]
    /\ UNCHANGED <<inputVars, collectVars, fetchVars, taskVars, otherVars,
                   mergeVars, overtaken, featVars, rightOut, frameVars>>

\* merge(A, merge(B, C))
GroupRight ==
    /\ rightOut = NoResult
    /\ rightOut' =
          [deep |-> DeepMerge(mergeIn[1], DeepMerge(mergeIn[2], mergeIn[3])),
           flat |-> FlatPair(Given(mergeIn[1]),
                             FlatPair(Given(mergeIn[2]), Given(mergeIn[3])))]
    /\ UNCHANGED <<inputVars, collectVars, fetchVars, taskVars, otherVars,
                   mergeVars, overtaken, featVars, leftOut, frameVars>>

NextGroup == GroupLeft \/ GroupRight

SpecGroup == InitGroup /\ [][NextGroup]_vars

\* ---------------------------------------------------------------- C21
Regrouped == leftOut # NoResult /\ rightOut # NoResult

\* C21: merge is associative: for all payloads A, B, C, merging (A merged
\* with B) with C gives the same payload as merging A with (B merged with C),
\* with _deep_merge and with _merge_payloads.
C21_MergeAssociative == Regrouped => leftOut = rightOut

\* ---------------------------------------------------------------- C22
\* What sub-fetch i returned at field f of section sec, Null when it has none.
SubFetched(i, sec, f) == Get(Get(ReturnedInOrder[i], sec, Map(EmptyDict)).m, f, Null)

SeedSections == {sec \in DOMAIN SeedPayload : IsMap(SeedPayload[sec])}

C23_SectionsAdditive ==
    (fetchPc = "done" /\ Truthy(query.profile_path) /\ "newsapi_key" \notin keys) =>
        \A f \in DOMAIN SeedPayload.sentiment.m :
            payload.sentiment.m[f] = SeedPayload.sentiment.m[f]

\* ---------------------------------------------------------------- C24
\* C24: while the sub-fetches of a fetch, or the sources of a collect, run
\* concurrently, each writes only its own result: a sub-fetch's returned
\* payload and its gather slot change only in the step in which that sub-fetch
\* finishes, a source's slot only when that source returns, the accumulator of
\* fetch only before the sub-fetches start or after all of them are done, and
\* the merged payload of collect only after every source returned.
C24_NoSharedWrites ==
    [][/\ \A i \in Tasks :
            (returned'[i] # returned[i] \/ results'[i] # results[i])
                => (st[i] # "done" /\ st'[i] = "done")
       /\ payload' # payload
            => (fetchPc = "start" \/ \A i \in Tasks : st[i] = "done")
       /\ raw'[1] # raw[1] => (fetchPc # "done" /\ fetchPc' = "done")
       /\ raw'[2] # raw[2] => (otherSt = "running" /\ otherSt' = "done")
       /\ merged' # merged => (fetchPc = "done" /\ otherSt = "done")]_vars

\* Two sub-fetches are in flight, an earlier one has stored its result, and
\* the accumulator is still the initial one.
C24_Witness ==
    /\ Cardinality(InFlight) >= 2
    /\ \E i \in Tasks : st[i] = "done" /\ results[i] = returned[i] /\ returned[i] # NoResult
    /\ \E i \in Tasks : st[i] = "running" /\ results[i] = NoResult
    /\ payload = InitialPayload
    /\ fetchPc = "gather"

\* ---------------------------------------------------------------- C25
\* C25: with r = product.release_frequency_per_quarter and
\* s = hiring.senior_ratio, execution_capability is "Unknown" when both are
\* absent; otherwise the score is r/4 if r is present plus 2*s if s is
\* present, and the result is "Excellent" when the score is > 1.6, "Poor"
\* when it is < 0.8 and "Average" otherwise.
C25_ExecutionBuckets ==
    IsMap(ssffOut) =>
        LET r == Get(Section(featIn, "product").m, "release_frequency_per_quarter", Null)
            s == Get(Section(featIn, "hiring").m, "senior_ratio", Null)
            \* the score times 400: r in units, s in hundredths
            scaled == (IF r # Null THEN 100 * r.n ELSE 0)
                      + (IF s # Null THEN 8 * s.n ELSE 0)
        IN  ssffOut.m.execution_capability =
                IF r = Null /\ s = Null THEN Str("Unknown")
                ELSE IF scaled > 640 THEN Str("Excellent")
                ELSE IF scaled < 320 THEN Str("Poor")
                ELSE Str("Average")

\* r = 4 and s = 0.3 give the score 1.6 exactly: "Average".
C25_Witness ==
    /\ IsMap(ssffOut)
    /\ Get(Section(featIn, "product").m, "release_frequency_per_quarter", Null) = Num(4)
    /\ Get(Section(featIn, "hiring").m, "senior_ratio", Null) = Num(30)
    /\ ssffOut.m.execution_capability = Str("Average")

\* ---------------------------------------------------------------- C26
\* C26: PredictionFeatureBlock.build returns exactly the 14 named fields, and
\* each pass-through field is the payload's value when one was supplied and
\* the literal "Unknown" otherwise, never null.
C26_PassThroughOrUnknown ==
    IsMap(ssffOut) =>
        /\ DOMAIN ssffOut.m =
              {f[1] : f \in PassThrough}
              \cup {"industry_growth", "growth_speed", "execution_capability"}
        /\ \A f \in PassThrough :
              LET given == Get(Section(featIn, f[2]).m, f[3], Null)
              IN  /\ ssffOut.m[f[1]] = IF given # Null THEN given ELSE Str("Unknown")
                  /\ ssffOut.m[f[1]] # Null

\* ---------------------------------------------------------------- C27
\* C27: ExternalKnowledgeBlock.build completes without error on every payload
\* OpenDataSource.fetch can return, a payload whose market.size_usd is null
\* included, and a quantitative field that is null is emitted as 0.
C27_ExternalBuildTotal ==
    (featIn \in FetchedPayloads /\ founderOut # NoResult /\ externalOut # NoResult) =>
        /\ IsMap(externalOut)
        /\ \A f \in ExternalFields :
              FieldIn(f) = Null => externalOut.m[f[1]] = Num(0)

\* ---------------------------------------------------------------- C28
\* C28: the two merges agree: for every sequence of payloads,
\* _merge_payloads returns the payload that folding the sequence left to
\* right with _deep_merge from an empty accumulator gives.
C28_MergesAgree ==
    (deepOut # NoResult /\ flatOut # NoResult) =>
        /\ ~flatOut.err
        /\ flatOut.m = deepOut.m

\* ---------------------------------------------------------------- C29
\* C29: merging leaves its inputs unchanged: after _merge_payloads, and after
\* the fold with _deep_merge, every payload that was merged has the content it
\* had before, its nested mappings and sequences included.
C29_InputsUnchanged ==
    /\ deepIn # NoResult => deepIn.p = mergeIn
    /\ flatIn # NoResult => flatIn.p = mergeIn

\* ---------------------------------------------------------------- C30
\* C30: founder enrichment starts only after all six sub-fetches have
\* completed and their results are merged, and the payload fetch returns has
\* one founder record per merged founder record, in the same order, whatever
\* the outcome of each enrichment lookup.
C30_EnrichmentKeepsFounders ==
    /\ (fetchPc = "enrich" \/ enriched # <<>>) =>
          /\ \A i \in Tasks : st[i] = "done"
          /\ folded # NoResult
    /\ (fetchPc = "done" /\ folded # NoResult) =>
          LET before == FoundersOf(folded.m).l
              after == FoundersOf(payload).l
          IN  /\ Len(after) = Len(before)
              /\ \A k \in DOMAIN before :
                    Get(after[k].m, "name", Null) = Get(before[k].m, "name", Null)

\* fetch returned after enriching two founders of different names, the
\* lookup of one mapped and that of the other not.
C30_Witness ==
    /\ fetchPc = "done"
    /\ Len(enriched) = 2
    /\ Len(FoundersOf(payload).l) = 2
    /\ FoundersOf(payload).l = enriched
    /\ Get(enriched[1].m, "name", Null) # Get(enriched[2].m, "name", Null)
    /\ enriched[1] = EnrichOne(FoundersOf(folded.m).l[1], "mapped")
    /\ enriched[2] = EnrichOne(FoundersOf(folded.m).l[2], "default")

=============================================================================
